---- MODULE Spec2Model ----
(***************************************************************************)
(* A model of the statechart interpreter: the Model (model_impl.cc), the   *)
(* Runtime (runtime_impl.cc) and the Executor (executor.cc), run on one    *)
(* fixed chart that has atomic, compound, parallel and final states.       *)
(* Start and SendEvent are atomic actions: each runs its whole macrostep.  *)
(* The variable trace records, for the last call, every step the executor  *)
(* took, each with a snapshot of the runtime at that moment.  The client   *)
(* may serialize the machine once and create a second state machine from   *)
(* the context; from then on it makes every call on both machines.         *)
(***************************************************************************)
EXTENDS Integers, Sequences, FiniteSets, TLC

VARIABLES
  is_running,        \* RuntimeImpl::is_running_
  active_states,     \* RuntimeImpl::active_states_
  internal_events,   \* RuntimeImpl::internal_events_ (FIFO of <<event, payload>>)
  datamodel,         \* the datamodel store: _event.name, _event.data, x
  addr,              \* the address of every State object (orders std::set<const State*>)
  model,             \* the Model that ModelBuilder built; it never changes
  trace,             \* what the last Start/SendEvent call did, in order
  call,              \* the last call: its name, event, payload and result
  context,           \* the StateMachineContext the client had serialized into
  restored           \* the state machine the client created from the context

vars == <<is_running, active_states, internal_events, datamodel, addr, model,
          trace, call, context, restored>>

\* nullptr: a missing state (the chart root), a missing transition.
Null == "nullptr"

\* The client stops sending once this many internal events are left pending.
MaxQueue == 4

\* FLAGS_max_num_microsteps as set for the model (the flag's default is 1000).
MaxNumMicrosteps == 6

----------------------------------------------------------------------------
(* Event names are strings of characters, so that prefix matching is       *)
(* computed on characters as the code does.                                *)

Dot == <<".">>
ev_event1 == <<"e","v","e","n","t","1">>
ev_event1_sub == ev_event1 \o Dot \o <<"s","u","b">>
ev_event1_sub_anything == ev_event1_sub \o Dot \o <<"a","n","y","t","h","i","n","g">>
ev_totally == <<"t","o","t","a","l","l","y">>
ev_totally_unrelated == ev_totally \o <<"_","u","n","r","e","l","a","t","e","d">>
ev_star == <<"*">>
ev_go == <<"g","o">>
ev_self == <<"s","e","l","f">>
ev_noop == <<"n","o","o","p">>
ev_x == <<"x">>
ev_y == <<"y">>
ev_z == <<"z">>
ev_w == <<"w">>
ev_i1 == <<"i","1">>
ev_i2 == <<"i","2">>
ev_error == <<"e","r","r","o","r">>
ev_error_execution == ev_error \o Dot \o <<"e","x","e","c","u","t","i","o","n">>
ev_done_state == <<"d","o","n","e",".","s","t","a","t","e",".">>

\* The event argument of SelectTransitions when it is nullptr (eventless).
NullEvent == <<"nullptr">>

\* The events a client sends, and the payloads it sends with them:
\* none, an expression that evaluates, an expression that does not.
ExternalEvents ==
  {ev_event1_sub_anything, ev_totally_unrelated, ev_go, ev_self, ev_noop,
   ev_x, ev_y, ev_z, ev_w}
Payloads == {"", "1", "bad"}

\* The events the client sends with a payload; the others it sends without.
PayloadEvents == {ev_go, ev_noop}

----------------------------------------------------------------------------
(* Conditions: none, In(state), and an expression that does not evaluate.  *)

NoCond == [kind |-> "none", st |-> Null]
BadCond == [kind |-> "bad", st |-> Null]
InCond(s) == [kind |-> "In", st |-> s]

----------------------------------------------------------------------------
(* Executable content.                                                     *)

Raise(e)   == [op |-> "raise", ev |-> e, val |-> 0]
Assign(v)  == [op |-> "assign", ev |-> <<>>, val |-> v]
AssignBad  == [op |-> "assignbad", ev |-> <<>>, val |-> 0]

\* An assign with location _event and a number as its expression: after it
\* _event is not an object any more.
AssignEvent == [op |-> "assignevent", ev |-> <<>>, val |-> 0]

\* An if element: its list of pairs of a condition and an executable block.
If(condition_executable) == [op |-> "if", condition_executable |-> condition_executable]
Branch(cond, executable) == [cond |-> cond, executable |-> executable]

\* A foreach element over an array with these values, with item variable x
\* and no index variable.
ForEach(array, item, body) ==
  [op |-> "foreach", array |-> array, item |-> item, body |-> body]

----------------------------------------------------------------------------
(* The chart.  Document order: A B C D S S1 S2 SF P R1 R1a R1b R1f R2 R2a  *)
(* R2f R3 R3a R3f G G1 G1x G1y L F.                                        *)

TopLevelStates == <<"A", "B", "C", "D", "S", "P", "G", "L", "F">>

St(ch, fin, par, ini, trs, onen, onex, idc) ==
  [children |-> ch, is_final |-> fin, is_parallel |-> par, initial |-> ini,
   transitions |-> trs, on_entry |-> onen, on_exit |-> onex, idc |-> idc]

Atomic(trs, idc) == St(<<>>, FALSE, FALSE, <<>>, trs, <<>>, <<>>, idc)
FinalSt(idc) == St(<<>>, TRUE, FALSE, <<>>, <<>>, <<>>, <<>>, idc)

StateTable ==
  [A   |-> St(<<>>, FALSE, FALSE, <<>>, <<"tAB", "tAC", "tAD">>,
              <<ForEach(<<>>, "item", <<Raise(ev_i1)>>)>>, <<>>, <<"A">>),
   B   |-> St(<<>>, FALSE, FALSE, <<>>, <<"tBS">>,
              <<If(<<Branch(InCond("B"), <<Raise(ev_i1)>>)>>), Raise(ev_i2)>>,
              <<>>, <<"B">>),
   C   |-> St(<<>>, FALSE, FALSE, <<>>, <<"tCS", "tCC", "tCn", "tCG">>,
              <<>>,
              <<If(<<Branch(InCond("C"), <<Assign(0)>>), Branch(NoCond, <<AssignBad>>)>>)>>,
              <<"C">>),
   D   |-> Atomic(<<"tDbad", "tDP", "tDL", "tDF", "tDw", "tDSF">>, <<"D">>),
   S   |-> St(<<"S1", "S2", "SF">>, FALSE, FALSE, <<"S1">>,
              <<"tSn", "tSdone", "tSS", "tSint", "tSerr", "tSy">>, <<>>, <<>>, <<"S">>),
   S1  |-> Atomic(<<"tS1i", "tS1x">>, <<"S","1">>),
   S2  |-> Atomic(<<"tS2i", "tS2x">>, <<"S","2">>),
   SF  |-> FinalSt(<<"S","F">>),
   P   |-> St(<<"R1", "R2", "R3">>, FALSE, TRUE, <<"R1", "R2", "R3">>,
              <<"tPy", "tPz", "tPdone", "tPn">>, <<>>, <<>>, <<"P">>),
   R1  |-> St(<<"R1a", "R1b", "R1f">>, FALSE, FALSE, <<"R1a">>, <<>>, <<>>, <<>>,
              <<"R","1">>),
   R1a |-> Atomic(<<"tR1x", "tR1y", "tR1w">>, <<"R","1","a">>),
   R1b |-> Atomic(<<"tR1bw">>, <<"R","1","b">>),
   R1f |-> FinalSt(<<"R","1","f">>),
   R2  |-> St(<<"R2a", "R2f">>, FALSE, FALSE, <<"R2a">>, <<>>, <<>>, <<>>,
              <<"R","2">>),
   R2a |-> Atomic(<<"tR2x", "tR2w">>, <<"R","2","a">>),
   R2f |-> FinalSt(<<"R","2","f">>),
   R3  |-> St(<<"R3a", "R3f">>, FALSE, FALSE, <<"R3a">>, <<>>, <<>>, <<>>,
              <<"R","3">>),
   R3a |-> Atomic(<<"tR3x", "tR3z", "tR3w">>, <<"R","3","a">>),
   R3f |-> FinalSt(<<"R","3","f">>),
   G   |-> St(<<"G1">>, FALSE, FALSE, <<"G1y">>, <<>>, <<>>, <<>>, <<"G">>),
   G1  |-> St(<<"G1x", "G1y">>, FALSE, FALSE, <<"G1x">>, <<>>, <<>>, <<>>,
              <<"G","1">>),
   G1x |-> Atomic(<<"tGxA">>, <<"G","1","x">>),
   G1y |-> Atomic(<<"tGyA", "tGyx">>, <<"G","1","y">>),
   L   |-> Atomic(<<"tLL", "tLA">>, <<"L">>),
   F   |-> FinalSt(<<"F">>)]

States == DOMAIN StateTable

Tr(src, tgts, evs, cond, internal, body) ==
  [source |-> src, targets |-> tgts, events |-> evs, cond |-> cond,
   is_internal |-> internal, executable |-> body]

TransitionTable ==
  [tAB    |-> Tr("A", <<"B">>, <<ev_event1>>, NoCond, FALSE, <<>>),
   tAC    |-> Tr("A", <<"C">>, <<ev_event1_sub>>, NoCond, FALSE, <<>>),
   tAD    |-> Tr("A", <<"D">>, <<ev_star>>, NoCond, FALSE, <<>>),
   tBS    |-> Tr("B", <<"S">>, <<>>, NoCond, FALSE, <<>>),
   tCS    |-> Tr("C", <<"S">>, <<ev_go>>, NoCond, FALSE,
                 <<If(<<Branch(InCond("C"), <<Raise(ev_i1)>>),
                        Branch(InCond("S"), <<Raise(ev_i2)>>),
                        Branch(NoCond, <<Raise(ev_z)>>)>>)>>),
   tCC    |-> Tr("C", <<"C">>, <<ev_self>>, NoCond, FALSE, <<Assign(1)>>),
   tCn    |-> Tr("C", <<>>, <<ev_noop>>, NoCond, FALSE, <<Assign(0), Raise(ev_self)>>),
   tCG    |-> Tr("C", <<"G">>, <<ev_totally, ev_x>>, NoCond, FALSE, <<>>),
   tDbad  |-> Tr("D", <<"L">>, <<ev_go>>, BadCond, FALSE, <<>>),
   tDP    |-> Tr("D", <<"P">>, <<ev_go>>, NoCond, FALSE, <<>>),
   tDL    |-> Tr("D", <<"L">>, <<ev_x>>, NoCond, FALSE, <<AssignEvent>>),
   tDF    |-> Tr("D", <<"F">>, <<ev_y>>, NoCond, FALSE, <<>>),
   tDw    |-> Tr("D", <<>>, <<ev_w>>, NoCond, FALSE,
                 <<If(<<Branch(NoCond, <<AssignBad, Raise(ev_i1)>>)>>),
                   Raise(ev_i2),
                   ForEach(<<0, 1>>, "x", <<AssignBad, Raise(ev_i1)>>),
                   Raise(ev_noop)>>),
   tDSF   |-> Tr("D", <<"S", "F">>, <<ev_z>>, NoCond, FALSE, <<>>),
   tSn    |-> Tr("S", <<>>, <<ev_noop>>, NoCond, FALSE, <<>>),
   tSdone |-> Tr("S", <<"C">>, <<ev_done_state \o <<"S">> >>, NoCond, FALSE, <<>>),
   tSS    |-> Tr("S", <<"S">>, <<ev_self>>, NoCond, FALSE, <<>>),
   tSint  |-> Tr("S", <<"S2">>, <<ev_w>>, NoCond, TRUE, <<>>),
   tSerr  |-> Tr("S", <<"C">>, <<ev_error>>, NoCond, FALSE, <<>>),
   tSy    |-> Tr("S", <<"S2">>, <<ev_y>>, NoCond, FALSE, <<>>),
   tS1i   |-> Tr("S1", <<"S2">>, <<ev_i1>>, NoCond, FALSE, <<>>),
   tS1x   |-> Tr("S1", <<"S2">>, <<ev_x>>, NoCond, FALSE, <<>>),
   tS2i   |-> Tr("S2", <<"SF">>, <<ev_i2>>, NoCond, FALSE, <<>>),
   tS2x   |-> Tr("S2", <<"SF">>, <<ev_x>>, NoCond, FALSE, <<>>),
   tPy    |-> Tr("P", <<"C">>, <<ev_y>>, NoCond, FALSE, <<>>),
   tPz    |-> Tr("P", <<"C">>, <<ev_z>>, NoCond, FALSE, <<>>),
   tPdone |-> Tr("P", <<"D">>, <<ev_done_state \o <<"P">> >>, NoCond, FALSE, <<>>),
   tPn    |-> Tr("P", <<>>, <<ev_noop>>, InCond("R1b"), FALSE, <<>>),
   tR1x   |-> Tr("R1a", <<"A">>, <<ev_x>>, NoCond, FALSE, <<>>),
   tR1y   |-> Tr("R1a", <<"A">>, <<ev_y>>, NoCond, FALSE, <<>>),
   tR1w   |-> Tr("R1a", <<"R1b">>, <<ev_w>>, NoCond, FALSE, <<AssignBad, Raise(ev_i2)>>),
   tR1bw  |-> Tr("R1b", <<"R1f">>, <<ev_w>>, NoCond, FALSE, <<>>),
   tR2x   |-> Tr("R2a", <<"C">>, <<ev_x>>, NoCond, FALSE, <<>>),
   tR2w   |-> Tr("R2a", <<"R2f">>, <<ev_w>>, NoCond, FALSE, <<Raise(ev_i1)>>),
   tR3x   |-> Tr("R3a", <<"A">>, <<ev_x>>, NoCond, FALSE, <<>>),
   tR3z   |-> Tr("R3a", <<"A">>, <<ev_z>>, NoCond, FALSE, <<>>),
   tR3w   |-> Tr("R3a", <<"R3f">>, <<ev_w>>, NoCond, FALSE, <<>>),
   tGxA   |-> Tr("G1x", <<"A">>, <<ev_go>>, NoCond, FALSE, <<>>),
   tGyA   |-> Tr("G1y", <<"A">>, <<ev_go>>, NoCond, FALSE, <<>>),
   tGyx   |-> Tr("G1y", <<"G1x">>, <<ev_x>>, NoCond, FALSE, <<>>),
   tLL    |-> Tr("L", <<"L">>, <<>>, NoCond, FALSE, <<>>),
   tLA    |-> Tr("L", <<"A">>, <<ev_go>>, NoCond, FALSE, <<>>)]

Transitions == DOMAIN TransitionTable

\* The chart's initial attribute: the targets of the top-level initial transition.
ModelInitialTargets == <<"A">>

\* The top-level initial transition, built with a null source and no events.
InitialTransitionId == "tInitial"
TheInitialTransition == Tr(Null, ModelInitialTargets, <<>>, NoCond, FALSE, <<>>)

\* State::AddChild sets the parent of every child; top-level states keep nullptr.
ParentOf ==
  [s \in States |->
     IF \E p \in States : \E i \in 1..Len(StateTable[p].children) :
          StateTable[p].children[i] = s
     THEN CHOOSE p \in States : \E i \in 1..Len(StateTable[p].children) :
            StateTable[p].children[i] = s
     ELSE Null]

\* The Model as ModelBuilder::Build leaves it.
Build ==
  [top_level_states |-> TopLevelStates, states |-> StateTable, parent |-> ParentOf,
   transitions |-> TransitionTable, initial_transition |-> TheInitialTransition]

GetTopLevelStates == model.top_level_states

Transition(t) ==
  IF t = InitialTransitionId THEN model.initial_transition ELSE model.transitions[t]

----------------------------------------------------------------------------
(* model::State and model::Transition accessors.                           *)

Range(seq) == {seq[i] : i \in 1..Len(seq)}

GetChildren(s) == model.states[s].children
IsFinal(s) == model.states[s].is_final
IsParallel(s) == model.states[s].is_parallel
IsAtomic(s) == GetChildren(s) = <<>>
IsCompound(s) == ~IsAtomic(s) /\ ~IsParallel(s)
GetTransitions(s) == model.states[s].transitions
GetOnEntry(s) == model.states[s].on_entry
GetOnExit(s) == model.states[s].on_exit

GetParent(s) == model.parent[s]

\* The initial transition of a state: source the state, no events, no body.
GetInitialTargets(s) == model.states[s].initial

GetSourceState(t) == Transition(t).source
GetTargetStates(t) == Transition(t).targets
GetEvents(t) == Transition(t).events
IsInternal(t) == Transition(t).is_internal
GetExecutable(t) == Transition(t).executable

\* Position of a value in a container, -1 if absent.
GetIndex(container, value) ==
  IF \E i \in 1..Len(container) : container[i] = value
  THEN (CHOOSE i \in 1..Len(container) :
          container[i] = value /\ \A j \in 1..(i-1) : container[j] # value) - 1
  ELSE -1

\* The ancestors of a state, youngest first, up to but excluding the limit.
RECURSIVE ProperAncestorsFrom(_, _)
ProperAncestorsFrom(parent, limit) ==
  IF parent = limit THEN <<>>
  ELSE <<parent>> \o ProperAncestorsFrom(GetParent(parent), limit)

GetProperAncestors(state, state_ancestor_limit) ==
  ProperAncestorsFrom(GetParent(state), state_ancestor_limit)

\* True if state1 is a descendant of state2; everything but the root is a
\* descendant of the root, and no state is a descendant of itself.
IsDescendant(state1, state2) ==
  IF state1 = Null THEN FALSE
  ELSE IF state2 = Null THEN TRUE
  ELSE IF state1 = state2 THEN FALSE
  ELSE state2 \in Range(GetProperAncestors(state1, Null))

Reverse(seq) == [i \in 1..Len(seq) |-> seq[Len(seq) + 1 - i]]

\* The first index at which two root-to-state paths differ.
RECURSIVE FirstUnmatched(_, _, _)
FirstUnmatched(path1, path2, i) ==
  IF i <= Len(path1) /\ i <= Len(path2) /\ path1[i] = path2[i]
  THEN FirstUnmatched(path1, path2, i + 1)
  ELSE i

\* The order of two paths from the root that split: the order of the two
\* states where they split, in their parent's list of children.
PathDocumentOrderLessThan(path1, path2, i) ==
  IF i > Len(path1) \/ i > Len(path2) THEN FALSE
  ELSE IF i = 1
       THEN GetIndex(GetTopLevelStates, path1[i]) < GetIndex(GetTopLevelStates, path2[i])
       ELSE GetIndex(GetChildren(path1[i-1]), path1[i])
              < GetIndex(GetChildren(path2[i-1]), path2[i])

PathsDocumentOrderLessThan(path1, path2) ==
  PathDocumentOrderLessThan(path1, path2, FirstUnmatched(path1, path2, 1))

\* The states are compared by the length of their paths from the root.
StateDocumentOrderLessThan_ByDepth(state1, state2) ==
  Len(GetProperAncestors(state1, Null)) < Len(GetProperAncestors(state2, Null))

StateDocumentOrderLessThan(state1, state2) ==
  IF state1 = state2 THEN FALSE
  ELSE IF state2 \in Range(GetProperAncestors(state1, Null)) THEN FALSE
  ELSE IF state1 \in Range(GetProperAncestors(state2, Null)) THEN TRUE
  ELSE PathsDocumentOrderLessThan(
         Reverse(GetProperAncestors(state1, Null)) \o <<state1>>,
         Reverse(GetProperAncestors(state2, Null)) \o <<state2>>)

RECURSIVE SortStatesByDocumentOrder(_, _)

\* The sorted sequence, given the state that comes first.
SortedFrom(reverse, states, first) ==
  <<first>> \o SortStatesByDocumentOrder(reverse, states \ {first})

\* Sorts a set of states in document order, or in reverse document order.
SortStatesByDocumentOrder(reverse, states) ==
  IF states = {} THEN <<>>
  ELSE SortedFrom(reverse, states,
         CHOOSE s \in states : \A o \in states \ {s} :
           StateDocumentOrderLessThan(IF reverse THEN o ELSE s,
                                      IF reverse THEN s ELSE o))

----------------------------------------------------------------------------
(* Event matching (model.cc).                                              *)

StartsWith(text, prefix) ==
  Len(prefix) <= Len(text) /\ SubSeq(text, 1, Len(prefix)) = prefix

\* Only the wildcard and the exact name match.
EventMatches_ExactOnly(event_name, events) ==
  \E i \in 1..Len(events) : events[i] = ev_star \/ events[i] = event_name

\* Any descriptor that is a prefix of the name matches.
EventMatches_AnyPrefix(event_name, events) ==
  \E i \in 1..Len(events) :
    events[i] = ev_star \/ StartsWith(event_name, events[i])

EventMatches(event_name, events) ==
  \E i \in 1..Len(events) :
    \/ events[i] = ev_star
    \/ /\ StartsWith(event_name, events[i])
       /\ \/ Len(event_name) = Len(events[i])
          \/ event_name[Len(events[i]) + 1] = "."

IsErrorEvent(event) == event = ev_error \/ StartsWith(event, ev_error \o Dot)

----------------------------------------------------------------------------
(* The runtime, as a record the executor's operations transform.           *)

Snapshot(rt) ==
  [is_running |-> rt.is_running, active_states |-> rt.active_states,
   internal_events |-> rt.internal_events, datamodel |-> rt.datamodel]

\* Appends one step to the trace, with the runtime as it is at that moment.
Log(rt, op, st, tr, ev, ts) ==
  [rt EXCEPT !.trace = Append(@, [op |-> op, st |-> st, tr |-> tr, ev |-> ev,
                                  ts |-> ts, rt |-> Snapshot(rt)])]

\* No state is ever reported active.
IsActiveState_Never(rt, state_id) == FALSE

IsActiveState(rt, state_id) == state_id \in rt.active_states

AddActiveState(rt, state) ==
  Log([rt EXCEPT !.active_states = @ \cup {state}], "add", state, Null, <<>>, <<>>)

EraseActiveState(rt, state) ==
  Log([rt EXCEPT !.active_states = @ \ {state}], "erase", state, Null, <<>>, <<>>)

\* The queue is taken to be empty whatever it holds.
HasInternalEvent_Never(rt) == FALSE

HasInternalEvent(rt) == rt.internal_events # <<>>

\* The event is put at the front of the queue.
EnqueueInternalEvent_AtFront(rt, event, payload) ==
  Log([rt EXCEPT !.internal_events = <<<<event, payload>>>> \o @],
      "enqueue", Null, Null, event, <<>>)

EnqueueInternalEvent(rt, event, payload) ==
  Log([rt EXCEPT !.internal_events = Append(@, <<event, payload>>)],
      "enqueue", Null, Null, event, <<>>)

\* Pops the front of the queue: the runtime after the pop and the event popped.
DequeueInternalEvent(rt) ==
  [rt |-> Log([rt EXCEPT !.internal_events = Tail(@)],
              "dequeue", Null, Null, Head(rt.internal_events)[1], <<>>),
   event_payload |-> Head(rt.internal_events)]

EnqueueExecutionError(rt) == EnqueueInternalEvent(rt, ev_error_execution, "msg")

SetRunning(rt, is_running_) == [rt EXCEPT !.is_running = is_running_]

\* The store after Clear: nothing is declared.  event_is_object tells whether
\* _event holds an object, name and data are _event.name and _event.data;
\* item is "undefined" until the location is declared.
EmptyDatamodel ==
  [event_is_object |-> FALSE, name |-> <<>>, data |-> "", x |-> 0,
   item |-> "undefined"]

Clear(rt) ==
  [rt EXCEPT !.datamodel = EmptyDatamodel, !.internal_events = <<>>,
             !.active_states = {}]

----------------------------------------------------------------------------
(* Executable content: Raise, Assign and ExecutableBlock.                  *)

\* Raise: puts its event on the internal queue, with no payload.
RaiseExecute(rt, content) ==
  [rt |-> EnqueueInternalEvent(rt, content.ev, ""), ok |-> TRUE]

\* Assign: an assignment the datamodel rejects enqueues an execution error
\* and reports failure.
AssignExecute(rt, content) ==
  IF content.op = "assignbad"
  THEN [rt |-> EnqueueExecutionError(rt), ok |-> FALSE]
  ELSE IF content.op = "assignevent"
  THEN [rt |-> [rt EXCEPT !.datamodel.event_is_object = FALSE,
                          !.datamodel.name = <<>>, !.datamodel.data = ""],
        ok |-> TRUE]
  ELSE [rt |-> [rt EXCEPT !.datamodel.x = content.val], ok |-> TRUE]

RECURSIVE ExecutableBlockExecute(_, _, _), ExecuteContent(_, _),
          IfExecute(_, _, _, _, _), ForEachExecute(_, _, _)

\* The item variable is never declared.
ForEachDeclare_Never(rt, content) == rt

\* ForEach, before its loop: the item variable is declared, holding null,
\* when it is not defined (x is declared by the chart's datamodel block).
ForEachDeclare(rt, content) ==
  IF content.item = "item" /\ rt.datamodel.item = "undefined"
  THEN [rt EXCEPT !.datamodel.item = "null"]
  ELSE rt

\* The branch whose condition holds is run; what the branch returns is not
\* looked at, the if returns whether every condition before it evaluated.
IfBranchExecute(r, no_error) == [rt |-> r.rt, ok |-> no_error]

\* If: the loop over the pairs from position i on.  A condition that does
\* not evaluate enqueues an error and the loop goes on with the next pair.
IfExecute(rt, condition_executable, i, saw_empty, no_error) ==
  IF i > Len(condition_executable) THEN [rt |-> rt, ok |-> no_error]
  ELSE IF saw_empty THEN [rt |-> rt, ok |-> FALSE]
  ELSE IF condition_executable[i].cond.kind = "bad"
  THEN IfExecute(EnqueueExecutionError(rt), condition_executable, i + 1,
                 saw_empty, FALSE)
  ELSE IF \/ condition_executable[i].cond.kind = "none"
          \/ IsActiveState(rt, condition_executable[i].cond.st)
  THEN IfBranchExecute(
         ExecutableBlockExecute(rt, condition_executable[i].executable, 1), no_error)
  ELSE IfExecute(rt, condition_executable, i + 1,
                 saw_empty \/ condition_executable[i].cond.kind = "none", no_error)

\* After the body ran for the item at position k: a body that fails ends
\* the foreach with failure.
ForEachNext(r, content, k) ==
  IF ~r.ok THEN [rt |-> r.rt, ok |-> FALSE] ELSE ForEachExecute(r.rt, content, k + 1)

\* ForEach: the loop over the items from position k on; the item is
\* assigned, then the body runs.
ForEachExecute(rt, content, k) ==
  IF k > Len(content.array) THEN [rt |-> rt, ok |-> TRUE]
  ELSE ForEachNext(
         ExecutableBlockExecute(
           [rt EXCEPT !.datamodel[content.item] = content.array[k]],
           content.body, 1),
         content, k)

\* Runs one element; ok is false when the element reports failure.
ExecuteContent(rt, content) ==
  IF content.op = "raise" THEN RaiseExecute(rt, content)
  ELSE IF content.op = "if"
  THEN IfExecute(rt, content.condition_executable, 1, FALSE, TRUE)
  ELSE IF content.op = "foreach"
  THEN ForEachExecute(ForEachDeclare(rt, content), content, 1)
  ELSE AssignExecute(rt, content)

\* The block goes on with the next element after a failure.
ExecutableBlockNext_GoesOn(r, executables, i) ==
  [rt |-> ExecutableBlockExecute(r.rt, executables, i + 1).rt, ok |-> FALSE]

\* After the element at position i ran: the block stops at a failure.
ExecutableBlockNext(r, executables, i) ==
  IF ~r.ok THEN [rt |-> r.rt, ok |-> FALSE]
  ELSE ExecutableBlockExecute(r.rt, executables, i + 1)

\* Runs the elements from position i on, and stops at the first failure.
ExecutableBlockExecute(rt, executables, i) ==
  IF i > Len(executables) THEN [rt |-> rt, ok |-> TRUE]
  ELSE ExecutableBlockNext(ExecuteContent(rt, executables[i]), executables, i)

\* The executor's Execute: runs a block and ignores its result.
Execute(rt, executable) == ExecutableBlockExecute(rt, executable, 1).rt

----------------------------------------------------------------------------
(* Transition selection (model_impl.cc, transition.cc).                    *)

\* A condition that does not evaluate is false and nothing is enqueued.
EvaluateCondition_Silent(rt, t) ==
  [rt |-> rt,
   result |-> \/ Transition(t).cond.kind = "none"
              \/ /\ Transition(t).cond.kind = "In"
                 /\ IsActiveState(rt, Transition(t).cond.st)]

EvaluateCondition(rt, t) ==
  LET cond == Transition(t).cond
  IN CASE cond.kind = "none" -> [rt |-> rt, result |-> TRUE]
       [] cond.kind = "In" -> [rt |-> rt, result |-> IsActiveState(rt, cond.st)]
       [] cond.kind = "bad" -> [rt |-> EnqueueExecutionError(rt), result |-> FALSE]

\* The transitions of the given states, state by state, each list in order.
RECURSIVE TransitionsOf(_)
TransitionsOf(states) ==
  IF states = <<>> THEN <<>>
  ELSE GetTransitions(Head(states)) \o TransitionsOf(Tail(states))

RECURSIVE FindEnabledFrom(_, _, _, _)
FindEnabledFrom(rt, candidates, i, event) ==
  IF i > Len(candidates) THEN [rt |-> rt, transition |-> Null]
  ELSE LET transition == candidates[i]
       IN IF \/ event = NullEvent /\ GetEvents(transition) # <<>>
             \/ event # NullEvent /\ ~EventMatches(event, GetEvents(transition))
          THEN FindEnabledFrom(rt, candidates, i + 1, event)
          ELSE LET c == EvaluateCondition(rt, transition)
               IN IF c.result THEN [rt |-> c.rt, transition |-> transition]
                  ELSE FindEnabledFrom(c.rt, candidates, i + 1, event)

FindEnabledTransition(rt, states, event) ==
  FindEnabledFrom(rt, TransitionsOf(states), 1, event)

FindLeastCommonCompoundAncestor(states) ==
  LET filtered_states ==
        SelectSeq(GetProperAncestors(Head(states), Null), IsCompound)
      found == {i \in 1..Len(filtered_states) :
                  \A j \in 2..Len(states) : IsDescendant(states[j], filtered_states[i])}
  IN IF found = {} THEN Null
     ELSE filtered_states[CHOOSE i \in found : \A j \in found : i <= j]

\* A transition with no targets is treated as one that targets its source.
GetTransitionDomain_TargetlessExits(transition) ==
  LET target_states == GetTargetStates(transition)
      source == GetSourceState(transition)
  IN IF source = Null THEN Null
     ELSE IF /\ IsInternal(transition)
             /\ IsCompound(source)
             /\ target_states # <<>>
             /\ \A i \in 1..Len(target_states) : IsDescendant(target_states[i], source)
          THEN source
     ELSE FindLeastCommonCompoundAncestor(<<source>> \o target_states)

GetTransitionDomain(transition) ==
  LET target_states == GetTargetStates(transition)
      source == GetSourceState(transition)
  IN IF target_states = <<>> THEN source
     ELSE IF source = Null THEN Null
     ELSE IF /\ IsInternal(transition)
             /\ IsCompound(source)
             /\ \A i \in 1..Len(target_states) : IsDescendant(target_states[i], source)
          THEN source
     ELSE FindLeastCommonCompoundAncestor(<<source>> \o target_states)

\* The active states below the domain of some transition, as a set.
ExitSetOf(rt, transitions) ==
  {state \in rt.active_states :
     \E i \in 1..Len(transitions) :
       IsDescendant(state, GetTransitionDomain(transitions[i]))}

\* The exit set is sorted in document order.
ComputeExitSet_InDocumentOrder(rt, transitions) ==
  SortStatesByDocumentOrder(FALSE, ExitSetOf(rt, transitions))

ComputeExitSet(rt, transitions) ==
  SortStatesByDocumentOrder(TRUE, ExitSetOf(rt, transitions))

\* No conflict is ever found.
HasConflict_Never(rt, t1, t2) == FALSE

\* A transition is never in conflict with itself.
HasConflict_DistinctOnly(rt, t1, t2) ==
  t1 # t2 /\ ExitSetOf(rt, <<t1>>) \cap ExitSetOf(rt, <<t2>>) # {}

\* Two transitions conflict when their exit sets have a state in common.
HasConflict(rt, t1, t2) ==
  Range(ComputeExitSet(rt, <<t1>>)) \cap Range(ComputeExitSet(rt, <<t2>>)) # {}

\* The accepted transitions after the candidate t1 is considered: the scan of
\* the accepted list stops at the first transition that preempts t1.
RECURSIVE ScanFiltered(_, _, _, _, _)
ScanFiltered(rt, t1, filtered_transitions, i, transitions_to_remove) ==
  IF i > Len(filtered_transitions)
  THEN SelectSeq(filtered_transitions, LAMBDA t : t \notin transitions_to_remove)
         \o <<t1>>
  ELSE LET t2 == filtered_transitions[i]
       IN IF HasConflict(rt, t1, t2)
          THEN IF IsDescendant(GetSourceState(t1), GetSourceState(t2))
               THEN ScanFiltered(rt, t1, filtered_transitions, i + 1,
                                 transitions_to_remove \cup {t2})
               ELSE filtered_transitions
          ELSE ScanFiltered(rt, t1, filtered_transitions, i + 1, transitions_to_remove)

RECURSIVE RemoveConflictingFrom(_, _, _, _)
RemoveConflictingFrom(rt, transitions, k, filtered_transitions) ==
  IF k > Len(transitions) THEN filtered_transitions
  ELSE RemoveConflictingFrom(rt, transitions, k + 1,
         ScanFiltered(rt, transitions[k], filtered_transitions, 1, {}))

RemoveConflictingTransitions(rt, transitions) ==
  RemoveConflictingFrom(rt, transitions, 1, <<>>)

RECURSIVE EnabledTransitionsFrom(_, _, _, _, _)

\* Keeps what FindEnabledTransition found for the atomic state at position
\* k, and goes on with the next atomic state.
AppendEnabledTransition(f, atomic_states, k, event, enabled_transitions) ==
  EnabledTransitionsFrom(f.rt, atomic_states, k + 1, event,
    IF f.transition # Null THEN Append(enabled_transitions, f.transition)
    ELSE enabled_transitions)

\* The enabled transitions of the atomic states from position k on, before
\* conflicts are removed; evaluating conditions may enqueue errors.
EnabledTransitionsFrom(rt, atomic_states, k, event, enabled_transitions) ==
  IF k > Len(atomic_states) THEN [rt |-> rt, transitions |-> enabled_transitions]
  ELSE AppendEnabledTransition(
         FindEnabledTransition(
           rt, <<atomic_states[k]>> \o GetProperAncestors(atomic_states[k], Null),
           event),
         atomic_states, k, event, enabled_transitions)

\* The result of a selection: the transitions, and the runtime with the
\* step recorded.
Selected(rt, event, selected) ==
  [rt |-> Log(rt, "select", Null, Null, event, selected), transitions |-> selected]

\* Removes the conflicts among the enabled transitions e found.
SelectFrom(e, event) ==
  Selected(e.rt, event, RemoveConflictingTransitions(e.rt, e.transitions))

SelectTransitions(rt, event) ==
  SelectFrom(
    EnabledTransitionsFrom(
      rt, SortStatesByDocumentOrder(FALSE, {s \in rt.active_states : IsAtomic(s)}),
      1, event, <<>>),
    event)

GetEventlessTransitions(rt) == SelectTransitions(rt, NullEvent)
GetTransitionsForEvent(rt, event) == SelectTransitions(rt, event)

RECURSIVE IsInFinalStateHelper(_, _)
IsInFinalStateHelper(state, active) ==
  IF IsCompound(state)
  THEN \E i \in 1..Len(GetChildren(state)) :
         IsFinal(GetChildren(state)[i]) /\ GetChildren(state)[i] \in active
  ELSE IF IsParallel(state)
  THEN \A i \in 1..Len(GetChildren(state)) :
         IsInFinalStateHelper(GetChildren(state)[i], active)
  ELSE FALSE

IsInFinalState(rt, state) == IsInFinalStateHelper(state, rt.active_states)

----------------------------------------------------------------------------
(* The entry set (model_impl.cc).  es holds states_to_enter (a set ordered *)
(* by address) and states_for_default_entry.                               *)

RECURSIVE AddDescendantStatesToEnter(_, _), AddAncestorStatesToEnter(_, _, _),
          EnterInitialTargets(_, _, _, _), EnterParallelChildren(_, _, _),
          EnterAncestors(_, _, _)

\* Enters each child of a parallel state that has no descendant entered yet.
EnterParallelChildren(children, i, es) ==
  IF i > Len(children) THEN es
  ELSE EnterParallelChildren(children, i + 1,
         IF ~\E s \in es.states_to_enter : IsDescendant(s, children[i])
         THEN AddDescendantStatesToEnter(children[i], es)
         ELSE es)

\* The loop over the targets of a compound state's initial transition.
EnterInitialTargets(state, targets, i, es) ==
  IF i > Len(targets) THEN es
  ELSE EnterInitialTargets(state, targets, i + 1,
         AddAncestorStatesToEnter(targets[i], state,
           AddDescendantStatesToEnter(targets[i], es)))

AddDescendantStatesToEnter(state, es) ==
  LET es1 == [es EXCEPT !.states_to_enter = @ \cup {state}]
  IN IF IsCompound(state)
     THEN EnterInitialTargets(state, GetInitialTargets(state), 1,
            [es1 EXCEPT !.states_for_default_entry = @ \cup {state}])
     ELSE IF IsParallel(state)
     THEN EnterParallelChildren(GetChildren(state), 1, es1)
     ELSE es1

\* The loop over the proper ancestors, youngest first.
EnterAncestors(proper_ancestors, i, es) ==
  IF i > Len(proper_ancestors) THEN es
  ELSE LET state == proper_ancestors[i]
           es1 == [es EXCEPT !.states_to_enter = @ \cup {state}]
       IN EnterAncestors(proper_ancestors, i + 1,
            IF IsParallel(state)
            THEN EnterParallelChildren(GetChildren(state), 1, es1)
            ELSE es1)

\* No ancestor of a target is entered.
AddAncestorStatesToEnter_None(state, ancestor, es) == es

AddAncestorStatesToEnter(state, ancestor, es) ==
  EnterAncestors(GetProperAncestors(state, ancestor), 1, es)

\* All targets of all transitions: the seed of the entry set.
RECURSIVE TargetsOf(_)
TargetsOf(transitions) ==
  IF transitions = <<>> THEN {}
  ELSE Range(GetTargetStates(Head(transitions))) \cup TargetsOf(Tail(transitions))

\* The loop over states_to_enter_set while AddDescendantStatesToEnter inserts
\* into it: a std::set is walked by increasing address, so a state inserted
\* during the walk is visited exactly when its address is above the position
\* of the walk.
RECURSIVE EnterDescendantsOfSet(_, _, _)
EnterDescendantsOfSet(address, es, position) ==
  LET rest == {s \in es.states_to_enter : address[s] > position}
  IN IF rest = {} THEN es
     ELSE LET state == CHOOSE s \in rest : \A o \in rest : address[s] <= address[o]
          IN EnterDescendantsOfSet(address, AddDescendantStatesToEnter(state, es),
                                   address[state])

\* The loop over the targets of one transition.
RECURSIVE EnterAncestorsOfTargetStates(_, _, _, _)
EnterAncestorsOfTargetStates(targets, i, ancestor_state, es) ==
  IF i > Len(targets) THEN es
  ELSE EnterAncestorsOfTargetStates(targets, i + 1, ancestor_state,
         AddAncestorStatesToEnter(targets[i], ancestor_state, es))

\* The loop that adds the ancestors of every target up to the domain.
RECURSIVE EnterAncestorsOfTargets(_, _, _)
EnterAncestorsOfTargets(transitions, k, es) ==
  IF k > Len(transitions) THEN es
  ELSE EnterAncestorsOfTargets(transitions, k + 1,
         EnterAncestorsOfTargetStates(GetTargetStates(transitions[k]), 1,
                                      GetTransitionDomain(transitions[k]), es))

\* The entry set is sorted in reverse document order.
SortedEntrySet_Reversed(es) ==
  [states_to_enter |-> SortStatesByDocumentOrder(TRUE, es.states_to_enter),
   states_for_default_entry |-> es.states_for_default_entry]

\* The entry set as EnterStates reads it: the states sorted in document order.
SortedEntrySet(es) ==
  [states_to_enter |-> SortStatesByDocumentOrder(FALSE, es.states_to_enter),
   states_for_default_entry |-> es.states_for_default_entry]

ComputeEntrySet(address, transitions) ==
  SortedEntrySet(
    EnterAncestorsOfTargets(transitions, 1,
      EnterDescendantsOfSet(
        address,
        [states_to_enter |-> TargetsOf(transitions), states_for_default_entry |-> {}],
        0)))

----------------------------------------------------------------------------
(* The executor (executor.cc).                                             *)

DoneEvent(state) == ev_done_state \o model.states[state].idc

\* The done event of the parallel state is enqueued whatever its regions are in.
EnqueueDoneOfParallel_Always(rt, grand_parent) ==
  IF grand_parent # Null /\ IsParallel(grand_parent)
  THEN EnqueueInternalEvent(rt, DoneEvent(grand_parent), "")
  ELSE rt

\* A final child of a region of a parallel state was entered: the parallel
\* state is done when all its regions are in a final state.
EnqueueDoneOfParallel(rt, grand_parent) ==
  IF /\ grand_parent # Null
     /\ IsParallel(grand_parent)
     /\ \A i \in 1..Len(GetChildren(grand_parent)) :
          IsInFinalState(rt, GetChildren(grand_parent)[i])
  THEN EnqueueInternalEvent(rt, DoneEvent(grand_parent), "")
  ELSE rt

\* Entering a final state enqueues the done event of the state itself.
EnterFinalState_DoneOfState(rt, state, parent) ==
  IF ~IsFinal(state) THEN rt
  ELSE IF parent = Null THEN SetRunning(rt, FALSE)
  ELSE EnqueueDoneOfParallel(EnqueueInternalEvent(rt, DoneEvent(state), ""),
                             GetParent(parent))

\* What entering a final state adds: a top-level final state stops the
\* machine, any other enqueues the done event of its parent.
EnterFinalState(rt, state, parent) ==
  IF ~IsFinal(state) THEN rt
  ELSE IF parent = Null THEN SetRunning(rt, FALSE)
  ELSE EnqueueDoneOfParallel(EnqueueInternalEvent(rt, DoneEvent(parent), ""),
                             GetParent(parent))

\* The notifications of an entered state.
NotifyStateEntered(rt, state, states_for_default_entry) ==
  IF state \in states_for_default_entry
  THEN Log(Log(rt, "entered", state, Null, <<>>, <<>>),
           "initial", state, Null, <<>>, <<>>)
  ELSE Log(rt, "entered", state, Null, <<>>, <<>>)

\* The notification is made before the state is added.
EnterState_NotifiesFirst(rt, state, states_for_default_entry) ==
  EnterFinalState(
    Execute(Log(AddActiveState(NotifyStateEntered(rt, state, states_for_default_entry),
                               state),
                "onentry", state, Null, <<>>, <<>>),
            GetOnEntry(state)),
    state, GetParent(state))

\* What EnterStates does for one state of the entry set.
EnterState(rt, state, states_for_default_entry) ==
  EnterFinalState(
    NotifyStateEntered(
      Execute(Log(AddActiveState(rt, state), "onentry", state, Null, <<>>, <<>>),
              GetOnEntry(state)),
      state, states_for_default_entry),
    state, GetParent(state))

RECURSIVE EnterStatesFrom(_, _, _, _)
EnterStatesFrom(rt, states_to_enter, i, states_for_default_entry) ==
  IF i > Len(states_to_enter) THEN rt
  ELSE EnterStatesFrom(EnterState(rt, states_to_enter[i], states_for_default_entry),
                       states_to_enter, i + 1, states_for_default_entry)

EnterStatesOf(rt, es) ==
  EnterStatesFrom(rt, es.states_to_enter, 1, es.states_for_default_entry)

EnterStates(rt, transitions) == EnterStatesOf(rt, ComputeEntrySet(addr, transitions))

RECURSIVE ExitStatesFrom(_, _, _)
ExitStatesFrom(rt, states, i) ==
  IF i > Len(states) THEN rt
  ELSE LET rt1 == Execute(Log(rt, "onexit", states[i], Null, <<>>, <<>>),
                          GetOnExit(states[i]))
           rt2 == EraseActiveState(rt1, states[i])
       IN ExitStatesFrom(Log(rt2, "exited", states[i], Null, <<>>, <<>>), states, i + 1)

\* No state is exited.
ExitStates_None(rt, transitions) == rt

ExitStates(rt, transitions) == ExitStatesFrom(rt, ComputeExitSet(rt, transitions), 1)

\* The loop over the transitions of a microstep: body, then notification.
RECURSIVE ExecuteTransitionsFrom(_, _, _)
ExecuteTransitionsFrom(rt, transitions, i) ==
  IF i > Len(transitions) THEN rt
  ELSE LET rt1 == Execute(Log(rt, "body", Null, transitions[i], <<>>, <<>>),
                          GetExecutable(transitions[i]))
       IN ExecuteTransitionsFrom(Log(rt1, "followed", Null, transitions[i], <<>>, <<>>),
                                 transitions, i + 1)

\* The states are entered before the transition bodies run.
MicroStep_EnterBeforeBodies(rt, transitions) ==
  LET rt0 == Log(rt, "microstep", Null, Null, <<>>, transitions)
      rt1 == ExitStates(rt0, transitions)
      rt2 == EnterStates(rt1, transitions)
  IN ExecuteTransitionsFrom(rt2, transitions, 1)

MicroStep(rt, transitions) ==
  LET rt0 == Log(rt, "microstep", Null, Null, <<>>, transitions)
      rt1 == ExitStates(rt0, transitions)
      rt2 == ExecuteTransitionsFrom(rt1, transitions, 1)
  IN EnterStates(rt2, transitions)

\* Assigning the name makes _event a new object, without data.
AssignStringOrEnqueueError_NewObject(rt, str) ==
  IF rt.datamodel.event_is_object
  THEN [rt |-> [rt EXCEPT !.datamodel.name = str, !.datamodel.data = ""], ok |-> TRUE]
  ELSE [rt |-> EnqueueExecutionError(rt), ok |-> FALSE]

\* Assigns a string to a member of _event, or enqueues an error: the
\* datamodel refuses the assignment when _event is not an object.
AssignStringOrEnqueueError(rt, str) ==
  IF rt.datamodel.event_is_object
  THEN [rt |-> [rt EXCEPT !.datamodel.name = str], ok |-> TRUE]
  ELSE [rt |-> EnqueueExecutionError(rt), ok |-> FALSE]

\* Assigns the value of an expression to _event.data, or enqueues an error:
\* the expression may fail to evaluate.
AssignExpressionOrEnqueueError(rt, expr) ==
  IF rt.datamodel.event_is_object /\ expr # "bad"
  THEN [rt EXCEPT !.datamodel.data = expr]
  ELSE EnqueueExecutionError(rt)

\* _event.data is assigned even when _event.name could not be.
AssignEventPayload_AfterFailure(named, payload) ==
  IF payload # "" THEN AssignExpressionOrEnqueueError(named.rt, payload)
  ELSE named.rt

\* After _event.name: _event.data is assigned when the name was assigned and
\* there is a payload.
AssignEventPayload(named, payload) ==
  IF ~named.ok THEN named.rt
  ELSE IF payload # "" THEN AssignExpressionOrEnqueueError(named.rt, payload)
  ELSE named.rt

\* _event.name is assigned, then _event.data when there is a payload; only
\* one error is raised.
AssignEventData(rt, event, payload) ==
  AssignEventPayload(AssignStringOrEnqueueError(rt, event), payload)

\* The microstep of the selected transitions, when there are any.
MicroStepIfAny(sel) ==
  IF sel.transitions # <<>> THEN MicroStep(sel.rt, sel.transitions) ELSE sel.rt

ProcessExternalEvent(rt, event, payload) ==
  MicroStepIfAny(GetTransitionsForEvent(AssignEventData(rt, event, payload), event))

RECURSIVE ShutdownFrom(_, _, _), DrainInternalEvents(_)
ShutdownFrom(rt, active_states_, i) ==
  IF i > Len(active_states_) THEN rt
  ELSE LET rt1 == Execute(Log(rt, "onexit", active_states_[i], Null, <<>>, <<>>),
                          GetOnExit(active_states_[i]))
       IN ShutdownFrom(EraseActiveState(rt1, active_states_[i]), active_states_, i + 1)

DrainInternalEvents(rt) ==
  IF HasInternalEvent(rt) THEN DrainInternalEvents(DequeueInternalEvent(rt).rt) ELSE rt

\* The active states are exited in document order.
Shutdown_InDocumentOrder(rt) ==
  DrainInternalEvents(
    ShutdownFrom(Log(rt, "shutdown", Null, Null, <<>>, <<>>),
                 SortStatesByDocumentOrder(FALSE, rt.active_states), 1))

Shutdown(rt) ==
  LET rt0 == Log(rt, "shutdown", Null, Null, <<>>, <<>>)
  IN DrainInternalEvents(
       ShutdownFrom(rt0, SortStatesByDocumentOrder(TRUE, rt0.active_states), 1))

\* What an iteration found: the transitions to take, and in break the reason
\* to leave the loop, if any.
IterationResult(sel, break) ==
  [rt |-> sel.rt, transitions |-> sel.transitions, break |-> break]

NoBreak == "none"

\* An error event that no transition handles is passed over like any other.
TransitionsForInternalEvent_NoErrorBreak(event, sel) == IterationResult(sel, NoBreak)

\* The transitions for a dequeued internal event; an error event that no
\* transition handles ends the macrostep.
TransitionsForInternalEvent(event, sel) ==
  IterationResult(sel, IF IsErrorEvent(event) /\ sel.transitions = <<>>
                       THEN "error" ELSE NoBreak)

DequeueAndSelect(d) ==
  TransitionsForInternalEvent(
    d.event_payload[1],
    GetTransitionsForEvent(
      AssignEventData(d.rt, d.event_payload[1], d.event_payload[2]),
      d.event_payload[1]))

\* The eventless transitions sel if there are any; else the loop is left when
\* the queue is empty, and the next internal event is dequeued when it is not.
TransitionsOfIteration(sel) ==
  IF sel.transitions # <<>> THEN IterationResult(sel, NoBreak)
  ELSE IF ~HasInternalEvent(sel.rt) THEN IterationResult(sel, "stable")
  ELSE DequeueAndSelect(DequeueInternalEvent(sel.rt))

\* The end of an iteration: the loop is left, or the microstep is taken.
\* The step "loopend" records why the loop was left.
EndOfIteration(r) ==
  IF r.break # NoBreak
  THEN [rt |-> Log(r.rt, "loopend", r.break, Null, <<>>, <<>>), done |-> TRUE]
  ELSE [rt |-> MicroStepIfAny(r), done |-> FALSE]

\* An iteration that looks at the internal queue before the eventless
\* transitions.
MacrostepIteration_QueueFirst(rt) ==
  EndOfIteration(
    IF HasInternalEvent(rt)
    THEN DequeueAndSelect(
           DequeueInternalEvent(Log(rt, "iteration", Null, Null, <<>>, <<>>)))
    ELSE TransitionsOfIteration(
           GetEventlessTransitions(Log(rt, "iteration", Null, Null, <<>>, <<>>))))

\* One iteration of the macrostep loop; done is true when it leaves the loop.
MacrostepIteration(rt) ==
  EndOfIteration(
    TransitionsOfIteration(
      GetEventlessTransitions(Log(rt, "iteration", Null, Null, <<>>, <<>>))))

\* The bound is compared with <= instead of <.
BelowMaxNumMicrosteps_OffByOne(num_microsteps) == num_microsteps <= MaxNumMicrosteps

\* The condition of the macrostep loop on its counter.
\* The loop is left one iteration early.
BelowMaxNumMicrosteps_OneShort(num_microsteps) == num_microsteps + 1 < MaxNumMicrosteps

BelowMaxNumMicrosteps(num_microsteps) == num_microsteps < MaxNumMicrosteps

RECURSIVE MacrostepLoop(_, _)

\* After an iteration r: the loop is left or goes on.
NextIteration(r, num_microsteps) ==
  IF r.done THEN r.rt ELSE MacrostepLoop(r.rt, num_microsteps + 1)

\* The macrostep loop; num_microsteps counts its iterations.
MacrostepLoop(rt, num_microsteps) ==
  IF ~rt.is_running THEN Log(rt, "loopend", "notrunning", Null, <<>>, <<>>)
  ELSE IF ~BelowMaxNumMicrosteps(num_microsteps)
  THEN Log(rt, "loopend", "limit", Null, <<>>, <<>>)
  ELSE NextIteration(MacrostepIteration(rt), num_microsteps)

\* The machine is left as the loop left it.
ShutdownIfNotRunning_Never(rt) == rt

\* After the loop: a machine that stopped is shut down.
ShutdownIfNotRunning(rt) == IF ~rt.is_running THEN Shutdown(rt) ELSE rt

ExecuteUntilStable(rt) == ShutdownIfNotRunning(MacrostepLoop(rt, 0))

\* The machine is started again even when it is running.
ExecutorStart_Always(rt) ==
  ExecuteUntilStable(
    EnterStates([SetRunning(Clear(rt), TRUE) EXCEPT !.datamodel.event_is_object = TRUE],
                <<InitialTransitionId>>))

\* Executor::Start on a runtime; the system variables are declared and
\* assigned in a cleared datamodel and the chart's datamodel block sets x.
ExecutorStart(rt) ==
  IF rt.is_running THEN rt
  ELSE LET rt1 == SetRunning(Clear(rt), TRUE)
           rt2 == [rt1 EXCEPT !.datamodel =
                             [EmptyDatamodel EXCEPT !.event_is_object = TRUE]]
       IN ExecuteUntilStable(EnterStates(rt2, <<InitialTransitionId>>))

\* The event is processed whether the machine is running or not.
ExecutorSendEvent_Always(rt, event, payload) ==
  ExecuteUntilStable(ProcessExternalEvent(rt, event, payload))

\* The queue is worked off before the external event is processed.
ExecutorSendEvent_QueueFirst(rt, event, payload) ==
  IF ~rt.is_running THEN rt
  ELSE ExecuteUntilStable(ProcessExternalEvent(ExecuteUntilStable(rt), event, payload))

ExecutorSendEvent(rt, event, payload) ==
  IF ~rt.is_running THEN rt
  ELSE ExecuteUntilStable(ProcessExternalEvent(rt, event, payload))

----------------------------------------------------------------------------
(* Serialization (runtime_impl.cc, state_machine.cc) and restoration       *)
(* (state_machine_factory.cc, model_impl.cc).                              *)

\* State::id(): the id is what a snapshot holds for a state.
StateId(state) == model.states[state].idc

ActiveStateElement(id) == [id |-> id, active_child |-> <<>>]

\* The ids of a list of ActiveStateElement records.
ElementIds(active_states_) == [k \in 1..Len(active_states_) |-> active_states_[k].id]

\* The list with an element for the id, added at the end when there is none.
LookupOrInsert(id, active_states_) ==
  IF GetIndex(ElementIds(active_states_), id) = -1
  THEN Append(active_states_, ActiveStateElement(id))
  ELSE active_states_

\* Walks the path from its last entry (the top-level state) down to its
\* first (the state), finding or adding an element at each level.
RECURSIVE AddStatePathToActiveState(_, _, _)

\* The path goes on below the element of the state at position i.
AddStatePathBelow(state_to_root_path, i, states) ==
  IF i > 1
  THEN [states EXCEPT
          ![GetIndex(ElementIds(states), StateId(state_to_root_path[i])) + 1].active_child =
             AddStatePathToActiveState(state_to_root_path, i - 1, @)]
  ELSE states

AddStatePathToActiveState(state_to_root_path, i, active_states_) ==
  AddStatePathBelow(state_to_root_path, i,
                    LookupOrInsert(StateId(state_to_root_path[i]), active_states_))

PopulateActiveStateElement(state, active_states_) ==
  AddStatePathToActiveState(<<state>> \o GetProperAncestors(state, Null),
                            Len(GetProperAncestors(state, Null)) + 1, active_states_)

\* The loop of Serialize over the active states, a std::set walked by
\* increasing address.
RECURSIVE PopulateActiveStates(_, _, _)
PopulateActiveStates(address, states, active_state) ==
  IF states = {} THEN active_state
  ELSE PopulateActiveStates(
         address,
         states \ {CHOOSE s \in states : \A o \in states : address[s] <= address[o]},
         PopulateActiveStateElement(
           CHOOSE s \in states : \A o \in states : address[s] <= address[o],
           active_state))

\* A StateMachineContext::Runtime as it is constructed: nothing set.
EmptySerializedRuntime == [running |-> FALSE, active_state |-> <<>>]

\* RuntimeImpl::Serialize: with internal events pending it reports the misuse
\* and returns the record empty.
RuntimeSerialize(rt) ==
  IF ~HasInternalEvent(rt)
  THEN [running |-> rt.is_running,
        active_state |-> PopulateActiveStates(addr, rt.active_states, <<>>)]
  ELSE EmptySerializedRuntime

\* The datamodel store written as a document, and read back from one.
SerializeAsString(store) ==
  <<<<"_event", store.event_is_object>>, <<"_event.name", store.name>>,
    <<"_event.data", store.data>>, <<"x", store.x>>, <<"item", store.item>>>>

ValueAt(data, location) ==
  data[CHOOSE k \in 1..Len(data) : data[k][1] = location][2]

ParseFromString(data) ==
  [event_is_object |-> ValueAt(data, "_event"),
   name |-> ValueAt(data, "_event.name"), data |-> ValueAt(data, "_event.data"),
   x |-> ValueAt(data, "x"), item |-> ValueAt(data, "item")]

\* A StateMachineContext as the client constructs it; written is true once
\* SerializeToContext has filled it.
EmptyContext ==
  [written |-> FALSE, runtime |-> EmptySerializedRuntime, datamodel |-> <<>>]

\* The context is written whether internal events are pending or not.
StateMachineSerializeToContext_Always(rt, state_machine_context) ==
  [ok |-> TRUE,
   context |-> [written |-> TRUE,
                runtime |-> [running |-> rt.is_running,
                             active_state |->
                               PopulateActiveStates(addr, rt.active_states, <<>>)],
                datamodel |-> SerializeAsString(rt.datamodel)]]

\* StateMachine::SerializeToContext: the return value and the context.
StateMachineSerializeToContext(rt, state_machine_context) ==
  IF HasInternalEvent(rt)
  THEN [ok |-> FALSE, context |-> state_machine_context]
  ELSE [ok |-> TRUE,
        context |-> [written |-> TRUE, runtime |-> RuntimeSerialize(rt),
                     datamodel |-> SerializeAsString(rt.datamodel)]]

\* The elements whose id is the id of one of the states, each paired with
\* that state, in the order of the elements; the others are skipped.
GetActiveStatePairs(states, active_states_) ==
  [k \in 1..Len(SelectSeq(active_states_,
                          LAMBDA e : \E i \in 1..Len(states) : StateId(states[i]) = e.id)) |->
     [element |-> SelectSeq(active_states_,
                            LAMBDA e : \E i \in 1..Len(states) : StateId(states[i]) = e.id)[k],
      state |-> states[CHOOSE i \in 1..Len(states) :
                  /\ StateId(states[i])
                       = SelectSeq(active_states_,
                                   LAMBDA e : \E j \in 1..Len(states) :
                                                StateId(states[j]) = e.id)[k].id
                  /\ \A j \in 1..(i-1) :
                       StateId(states[j])
                         # SelectSeq(active_states_,
                                     LAMBDA e : \E l \in 1..Len(states) :
                                                  StateId(states[l]) = e.id)[k].id]]]

\* The breadth-first walk of the tree of active states.
RECURSIVE ActiveStatesFrom(_, _)
ActiveStatesFrom(bfs_queue, states) ==
  IF bfs_queue = <<>> THEN states
  ELSE ActiveStatesFrom(
         Tail(bfs_queue)
           \o GetActiveStatePairs(GetChildren(Head(bfs_queue).state),
                                  Head(bfs_queue).element.active_child),
         Append(states, Head(bfs_queue).state))

\* Only the top-level elements of the tree are looked at.
GetActiveStates_TopLevelOnly(active_states_) ==
  [k \in 1..Len(GetActiveStatePairs(GetTopLevelStates, active_states_)) |->
     GetActiveStatePairs(GetTopLevelStates, active_states_)[k].state]

\* ModelImpl::GetActiveStates: the states of a tree of active states.
GetActiveStates(active_states_) ==
  ActiveStatesFrom(GetActiveStatePairs(GetTopLevelStates, active_states_), <<>>)

\* A new RuntimeImpl that owns the given datamodel.
RuntimeImplCreate(store) ==
  [is_running |-> FALSE, active_states |-> {}, internal_events |-> <<>>,
   datamodel |-> store, trace |-> <<>>]

RECURSIVE AddActiveStatesFrom(_, _, _)
AddActiveStatesFrom(rt, states, i) ==
  IF i > Len(states) THEN rt
  ELSE AddActiveStatesFrom(AddActiveState(rt, states[i]), states, i + 1)

\* The running flag of the snapshot is not copied.
FactoryCreateStateMachine_NotRunning(state_machine_context) ==
  AddActiveStatesFrom(
    RuntimeImplCreate(ParseFromString(state_machine_context.datamodel)),
    GetActiveStates(state_machine_context.runtime.active_state), 1)

\* StateMachineFactory::CreateStateMachine from a context: the runtime of
\* the new state machine.
FactoryCreateStateMachine(state_machine_context) ==
  SetRunning(
    AddActiveStatesFrom(
      RuntimeImplCreate(ParseFromString(state_machine_context.datamodel)),
      GetActiveStates(state_machine_context.runtime.active_state), 1),
    state_machine_context.runtime.running)

----------------------------------------------------------------------------
(* The state machine.                                                      *)

\* The order in which ModelBuilder::BuildState allocates the states: the
\* children of a state before the state.
RECURSIVE AllocationOrder(_)
AllocationOrder(states) ==
  IF states = <<>> THEN <<>>
  ELSE AllocationOrder(GetChildren(Head(states))) \o <<Head(states)>>
         \o AllocationOrder(Tail(states))

\* The addresses the allocator may give: increasing or decreasing with the
\* order of allocation.
Addresses ==
  LET order == AllocationOrder(GetTopLevelStates)
  IN {[s \in States |-> GetIndex(order, s) + 1],
      [s \in States |-> Len(order) - GetIndex(order, s)]}

\* The runtime of the current state, with an empty trace.
Runtime ==
  [is_running |-> is_running, active_states |-> active_states,
   internal_events |-> internal_events, datamodel |-> datamodel, trace |-> <<>>]

Returned(rt) ==
  /\ is_running' = rt.is_running
  /\ active_states' = rt.active_states
  /\ internal_events' = rt.internal_events
  /\ datamodel' = rt.datamodel
  /\ trace' = rt.trace
  /\ addr' = addr
  /\ model' = model

\* The second state machine: none before the client creates it.
NoStateMachine ==
  [created |-> FALSE, is_running |-> FALSE, active_states |-> {},
   internal_events |-> <<>>, datamodel |-> EmptyDatamodel, trace |-> <<>>]

\* The second state machine with the given runtime.
StateMachineOf(rt) ==
  [created |-> TRUE, is_running |-> rt.is_running, active_states |-> rt.active_states,
   internal_events |-> rt.internal_events, datamodel |-> rt.datamodel,
   trace |-> rt.trace]

\* The runtime of the second state machine, with an empty trace.
RestoredRuntime ==
  [is_running |-> restored.is_running, active_states |-> restored.active_states,
   internal_events |-> restored.internal_events, datamodel |-> restored.datamodel,
   trace |-> <<>>]

\* A call that does not go through the executor: the runtime is as it was.
RuntimeUnchanged ==
  /\ trace' = <<>>
  /\ UNCHANGED <<is_running, active_states, internal_events, datamodel, addr, model>>

Init ==
  /\ model = Build
  /\ is_running = FALSE
  /\ active_states = {}
  /\ internal_events = <<>>
  /\ datamodel = EmptyDatamodel
  /\ addr \in Addresses
  /\ trace = <<>>
  /\ call = [name |-> "none", event |-> <<>>, payload |-> "", result |-> Null]
  /\ context = EmptyContext
  /\ restored = NoStateMachine

\* The client calls Start; once it has created the second state machine it
\* makes every call on both.
Start ==
  /\ ~context.written
  /\ Returned(ExecutorStart(Runtime))
  /\ restored' = IF restored.created
                 THEN StateMachineOf(ExecutorStart(RestoredRuntime)) ELSE restored
  /\ call' = [name |-> "Start", event |-> <<>>, payload |-> "", result |-> Null]
  /\ context' = context

SendEvent ==
  \E event \in ExternalEvents, payload \in Payloads :
    /\ payload # "" => event \in PayloadEvents
    /\ Len(internal_events) < MaxQueue
    /\ ~context.written
    /\ Returned(ExecutorSendEvent(Runtime, event, payload))
    /\ restored' = IF restored.created
                   THEN StateMachineOf(ExecutorSendEvent(RestoredRuntime, event, payload))
                   ELSE restored
    /\ call' = [name |-> "SendEvent", event |-> event, payload |-> payload,
                result |-> Null]
    /\ context' = context

\* The client calls Runtime::Serialize; result is the record returned.
Serialize ==
  /\ ~context.written
  /\ ~restored.created
  /\ call' = [name |-> "Serialize", event |-> <<>>, payload |-> "",
              result |-> RuntimeSerialize(Runtime)]
  /\ RuntimeUnchanged
  /\ UNCHANGED <<context, restored>>

\* The client calls SerializeToContext with a new context; result is the
\* value returned.
SerializeToContext ==
  /\ ~context.written
  /\ ~restored.created
  /\ context' = StateMachineSerializeToContext(Runtime, EmptyContext).context
  /\ call' = [name |-> "SerializeToContext", event |-> <<>>, payload |-> "",
              result |-> StateMachineSerializeToContext(Runtime, EmptyContext).ok]
  /\ RuntimeUnchanged
  /\ restored' = restored

\* The client creates the second state machine from the context it had
\* serialized into, and lets go of the context.
CreateStateMachine ==
  /\ context.written
  /\ ~restored.created
  /\ restored' = StateMachineOf(
                    [FactoryCreateStateMachine(context) EXCEPT !.trace = <<>>])
  /\ context' = EmptyContext
  /\ call' = [name |-> "CreateStateMachine", event |-> <<>>, payload |-> "",
              result |-> Null]
  /\ RuntimeUnchanged

Next == Start \/ SendEvent \/ Serialize \/ SerializeToContext \/ CreateStateMachine

Spec == Init /\ [][Next]_vars

\* The same chart with L as its initial state: L has an eventless,
\* unconditional transition to itself.
BuildLoop ==
  [Build EXCEPT !.initial_transition = Tr(Null, <<"L">>, <<>>, NoCond, FALSE, <<>>)]

InitLoop ==
  /\ model = BuildLoop
  /\ is_running = FALSE
  /\ active_states = {}
  /\ internal_events = <<>>
  /\ datamodel = EmptyDatamodel
  /\ addr \in Addresses
  /\ trace = <<>>
  /\ call = [name |-> "none", event |-> <<>>, payload |-> "", result |-> Null]
  /\ context = EmptyContext
  /\ restored = NoStateMachine

SpecLoop == InitLoop /\ [][Next]_vars

\* The comparison of two states of the model, applied on its own; result is
\* the value returned.
CompareStates ==
  \E state1, state2 \in States :
    /\ call' = [name |-> "StateDocumentOrderLessThan", event |-> <<state1, state2>>,
                payload |-> "", result |-> StateDocumentOrderLessThan(state1, state2)]
    /\ RuntimeUnchanged
    /\ UNCHANGED <<context, restored>>

NextOrder == CompareStates

SpecOrder == Init /\ [][NextOrder]_vars

----------------------------------------------------------------------------
(* Properties.  Every state of the model is a quiescent moment: the last   *)
(* call has returned.                                                      *)

ActiveChildren(state) == {c \in Range(GetChildren(state)) : c \in active_states}

\* A state chain from the root to an active atomic state.
HasActiveAtomicChain ==
  \E a \in active_states :
    IsAtomic(a) /\ Range(GetProperAncestors(a, Null)) \subseteq active_states

\* C1: whenever a call has returned and the machine is running, the active
\* set contains an atomic state with all of its ancestors, and every active
\* parallel state has all of its children active.
C1_ActiveSetHasAtomicChain ==
  is_running =>
    /\ HasActiveAtomicChain
    /\ \A p \in active_states :
         IsParallel(p) => Range(GetChildren(p)) \subseteq active_states

\* C2: whenever a call has returned and the machine is running, every
\* active compound state has exactly one active child, unless it is in a
\* final state.
C2_CompoundHasOneActiveChild ==
  is_running =>
    \A c \in active_states :
      IsCompound(c) =>
        \/ Cardinality(ActiveChildren(c)) = 1
        \/ IsInFinalStateHelper(c, active_states)


----------------------------------------------------------------------------
(* Reading the trace of the last call.                                     *)

Min(S) == CHOOSE x \in S : \A y \in S : x <= y
Max(S) == CHOOSE x \in S : \A y \in S : x >= y

\* A runtime with the contents of a snapshot.
RtOf(snapshot) ==
  [is_running |-> snapshot.is_running, active_states |-> snapshot.active_states,
   internal_events |-> snapshot.internal_events, datamodel |-> snapshot.datamodel,
   trace |-> <<>>]

\* The eventless transitions that selection yields in a snapshot.
EventlessEnabled(snapshot) == SelectTransitions(RtOf(snapshot), NullEvent).transitions

Steps(op) == {i \in 1..Len(trace) : trace[i].op = op}

\* Why the macrostep loop of the last call was left ("none": no loop ran).
LoopEndReason ==
  IF Steps("loopend") = {} THEN "none" ELSE trace[Min(Steps("loopend"))].st

\* The last step before the next step of one of the given kinds.
EndOfPart(i, ops) ==
  LET later == {j \in (i+1)..Len(trace) : trace[j].op \in ops}
  IN IF later = {} THEN Len(trace) ELSE Min(later) - 1

\* The steps of the microstep that starts at step i.
MicrostepPart(i) ==
  (i+1)..EndOfPart(i, {"microstep", "iteration", "loopend", "shutdown"})

\* The steps of the loop iteration that starts at step i.
IterationPart(i) == (i+1)..EndOfPart(i, {"iteration", "loopend", "shutdown"})

\* The dequeues of the macrostep loop (not those of the shutdown).
LoopDequeues ==
  {i \in Steps("dequeue") : \A j \in Steps("shutdown") : i < j}

C4_MacrostepIsBounded ==
  /\ Cardinality(Steps("iteration")) <= MaxNumMicrosteps
  /\ LoopEndReason = "limit" =>
       /\ is_running
       /\ Min(Steps("loopend")) = Len(trace)
       /\ active_states = trace[Len(trace) - 1].rt.active_states
       /\ active_states # {}

C4_Witness ==
  /\ LoopEndReason = "limit"
  /\ Cardinality(Steps("iteration")) = MaxNumMicrosteps
  /\ Cardinality(Steps("microstep")) >= MaxNumMicrosteps

\* The transitions whose bodies ran in the microstep that starts at step i.
BodiesOf(i) ==
  LET part == SubSeq(trace, i + 1, EndOfPart(i, {"microstep", "iteration", "loopend", "shutdown"}))
      bodies == SelectSeq(part, LAMBDA e : e.op = "body")
  IN [k \in 1..Len(bodies) |-> bodies[k].tr]

\* C5: in a microstep every on-exit block runs before any transition body,
\* the bodies run in the order of the transition list, and every body runs
\* before any on-entry block.
C5_ExitThenBodiesThenEntry ==
  \A i \in Steps("microstep") :
    /\ \A a, b \in MicrostepPart(i) :
         /\ (trace[a].op = "onexit" /\ trace[b].op = "body") => a < b
         /\ (trace[a].op = "body" /\ trace[b].op = "onentry") => a < b
         /\ (trace[a].op = "onexit" /\ trace[b].op = "onentry") => a < b
    /\ BodiesOf(i) = trace[i].ts
    /\ {trace[a].st : a \in {b \in MicrostepPart(i) : trace[b].op = "onexit"}}
         = ExitSetOf(RtOf(trace[i].rt), trace[i].ts)
    /\ TargetsOf(trace[i].ts)
         \subseteq {trace[a].st : a \in {b \in MicrostepPart(i) : trace[b].op = "onentry"}}

C5_Witness ==
  \E i \in Steps("microstep") :
    /\ Len(trace[i].ts) >= 2
    /\ \E a, b \in MicrostepPart(i) : trace[a].op = "onexit" /\ trace[b].op = "onentry"

IsPrefix(p, q) == Len(p) <= Len(q) /\ SubSeq(q, 1, Len(p)) = p

\* C6: in an iteration of the macrostep loop an internal event is dequeued
\* only when no eventless transition is enabled; when one is enabled, the
\* enabled eventless transitions are taken and no event is dequeued.
C6_EventlessBeforeInternalEvents ==
  /\ \A i \in LoopDequeues : EventlessEnabled(trace[i].rt) = <<>>
  /\ \A i \in Steps("iteration") :
       EventlessEnabled(trace[i].rt) # <<>> =>
         /\ \A j \in IterationPart(i) : trace[j].op # "dequeue"
         /\ \E j \in IterationPart(i) :
              /\ trace[j].op = "microstep"
              /\ trace[j].ts = EventlessEnabled(trace[i].rt)
              /\ IsPrefix(trace[i].rt.internal_events, trace[j].rt.internal_events)

C6_Witness ==
  /\ \E i \in Steps("iteration") :
       /\ EventlessEnabled(trace[i].rt) # <<>>
       /\ trace[i].rt.internal_events # <<>>
  /\ LoopDequeues # {}


Names(queue) == [k \in 1..Len(queue) |-> queue[k][1]]

\* The events of the steps of one kind, in the order of the steps.
EventsOf(steps, op) ==
  LET chosen == SelectSeq(steps, LAMBDA e : e.op = op)
  IN [k \in 1..Len(chosen) |-> chosen[k].ev]

\* C7: internal events are consumed in FIFO order, within a macrostep and
\* across calls: the events a call dequeues are, in order, the first of the
\* events that were pending when it began followed by those it enqueued,
\* the rest stay in the queue in that order, and each event dequeued by the
\* macrostep loop is the one offered to transition selection next.
C7_InternalEventsAreFifo ==
  [][LET pending == IF call'.name = "Start" /\ ~is_running
                    THEN <<>> ELSE Names(internal_events)
         all == pending \o EventsOf(trace', "enqueue")
         dequeued == EventsOf(trace', "dequeue")
     IN /\ IsPrefix(dequeued, all)
        /\ Names(internal_events') = SubSeq(all, Len(dequeued) + 1, Len(all))
        /\ \A i \in 1..Len(trace') :
             (trace'[i].op = "dequeue" /\ \A j \in 1..i : trace'[j].op # "shutdown")
               => \E k \in (i+1)..Len(trace') :
                    /\ trace'[k].op = "select"
                    /\ trace'[k].ev = trace'[i].ev
                    /\ \A j \in (i+1)..(k-1) :
                         /\ trace'[j].op = "enqueue"
                         /\ trace'[j].ev = ev_error_execution]_vars

C7_Witness ==
  /\ trace # <<>>
  /\ trace[1].op = "select"
  /\ trace[1].rt.internal_events # <<>>
  /\ \E i, j \in LoopDequeues : i < j /\ trace[i].ev # trace[j].ev

\* The states in the order of a pre-order walk of the state tree.
RECURSIVE PreOrder(_)
PreOrder(states) ==
  IF states = <<>> THEN <<>>
  ELSE <<Head(states)>> \o PreOrder(GetChildren(Head(states))) \o PreOrder(Tail(states))

\* The active atomic states of a snapshot, in pre-order.
ActiveAtomicStates(snapshot) ==
  SelectSeq(PreOrder(GetTopLevelStates),
            LAMBDA s : s \in snapshot.active_states /\ IsAtomic(s))

\* The transition matches the event (the eventless case: it has no events).
Matches(t, event) ==
  IF event = NullEvent THEN GetEvents(t) = <<>>
  ELSE EventMatches(event, GetEvents(t))

ConditionHolds(snapshot, t) ==
  \/ Transition(t).cond.kind = "none"
  \/ Transition(t).cond.kind = "In" /\ Transition(t).cond.st \in snapshot.active_states

\* The first transition that matches and whose condition holds, scanning the
\* atomic state and then its ancestors outward, each list in order.
FirstEnabled(snapshot, atomic_state, event) ==
  LET scan == TransitionsOf(<<atomic_state>> \o GetProperAncestors(atomic_state, Null))
      enabled == {k \in 1..Len(scan) :
                    Matches(scan[k], event) /\ ConditionHolds(snapshot, scan[k])}
  IN IF enabled = {} THEN Null ELSE scan[Min(enabled)]

\* The transitions found for the active atomic states, in document order.
Candidates(snapshot, event) ==
  LET atoms == ActiveAtomicStates(snapshot)
      found == [k \in 1..Len(atoms) |-> FirstEnabled(snapshot, atoms[k], event)]
  IN SelectSeq(found, LAMBDA t : t # Null)

\* sub is seq with some elements left out.
IsSubsequence(sub, seq) ==
  \E f \in [1..Len(sub) -> 1..Len(seq)] :
    /\ \A k \in 1..Len(sub) : seq[f[k]] = sub[k]
    /\ \A k, l \in 1..Len(sub) : k < l => f[k] < f[l]

\* C8: selection yields, for the active atomic states in document order, at
\* most one transition each: the first that matches and whose condition
\* holds, scanning the state and then its ancestors; with event1 -> B,
\* event1.sub -> C, * -> D on A, event1.sub.anything selects the transition
\* to B and totally_unrelated the transition to D.
C8_SelectsFirstEnabledPerAtomicState ==
  \A i \in Steps("select") :
    LET snapshot == trace[i].rt
        cands == Candidates(snapshot, trace[i].ev)
    IN /\ IsSubsequence(trace[i].ts, cands)
       /\ Len(cands) <= 1 => trace[i].ts = cands
       /\ snapshot.active_states = {"A"} =>
            /\ trace[i].ev = ev_event1_sub_anything => trace[i].ts = <<"tAB">>
            /\ trace[i].ev = ev_totally_unrelated => trace[i].ts = <<"tAD">>

C8_Witness ==
  /\ \E i \in Steps("select") :
       /\ trace[i].rt.active_states = {"A"}
       /\ trace[i].ev = ev_event1_sub_anything
       /\ trace[i].ts = <<"tAB">>

\* Their exit sets in the snapshot have a state in common.
Conflict(snapshot, t1, t2) ==
  ExitSetOf(RtOf(snapshot), <<t1>>) \cap ExitSetOf(RtOf(snapshot), <<t2>>) # {}

\* Of two conflicting transitions, the one the claim says is taken.
Preferred(cands, t1, t2) ==
  IF IsDescendant(GetSourceState(t1), GetSourceState(t2)) THEN t1
  ELSE IF IsDescendant(GetSourceState(t2), GetSourceState(t1)) THEN t2
  ELSE IF GetIndex(cands, t1) < GetIndex(cands, t2) THEN t1 ELSE t2

\* C9 as stated: of two selected transitions that conflict exactly one is
\* taken: the one whose source is a descendant of the other's source, else
\* the one selected earlier.
C9_ExactlyOneOfConflictingPair ==
  \A i \in Steps("select") :
    LET cands == Candidates(trace[i].rt, trace[i].ev)
        taken == Range(trace[i].ts)
    IN \A t1, t2 \in Range(cands) :
         (t1 # t2 /\ Conflict(trace[i].rt, t1, t2)) =>
           /\ (t1 \in taken) # (t2 \in taken)
           /\ Preferred(cands, t1, t2) \in taken

\* C9 amended: of two selected transitions that conflict at most one is
\* taken; when neither of the two conflicts with a third selected
\* transition exactly one is taken: the one whose source is a descendant of
\* the other's source, else the one selected earlier.
C9_AtMostOneOfConflictingPair ==
  \A i \in Steps("select") :
    LET cands == Candidates(trace[i].rt, trace[i].ev)
        taken == Range(trace[i].ts)
    IN \A t1, t2 \in Range(cands) :
         (t1 # t2 /\ Conflict(trace[i].rt, t1, t2)) =>
           /\ ~(t1 \in taken /\ t2 \in taken)
           /\ (\A t3 \in Range(cands) \ {t1, t2} :
                 ~Conflict(trace[i].rt, t1, t3) /\ ~Conflict(trace[i].rt, t2, t3))
                => /\ (t1 \in taken) # (t2 \in taken)
                   /\ Preferred(cands, t1, t2) \in taken

C9_Witness ==
  \E i \in Steps("select") :
    /\ Candidates(trace[i].rt, trace[i].ev) = <<"tPz", "tPz", "tR3z">>
    /\ trace[i].ts = <<"tR3z">>

\* C10: taking a transition with no targets does not exit its source: the
\* source stays active and neither its on-exit nor its on-entry block runs;
\* taking a transition that has its source among its targets runs the
\* on-exit block of the source and then its on-entry block.
C10_TargetlessStaysSelfTargetReenters ==
  \A i \in Steps("microstep") :
    \A t \in Range(trace[i].ts) :
      LET source == GetSourceState(t)
          part == MicrostepPart(i)
          last == EndOfPart(i, {"microstep", "iteration", "loopend", "shutdown"})
      IN /\ GetTargetStates(t) = <<>> =>
              /\ source \notin ExitSetOf(RtOf(trace[i].rt), <<t>>)
              /\ trace[i].ts = <<t>> =>
                   /\ \A a \in part :
                        trace[a].op \in {"onexit", "onentry"} => trace[a].st # source
                   /\ source \in trace[last].rt.active_states
         /\ source \in Range(GetTargetStates(t)) =>
              /\ \E a, b \in part :
                   /\ a < b
                   /\ trace[a].op = "onexit" /\ trace[a].st = source
                   /\ trace[b].op = "onentry" /\ trace[b].st = source
              /\ source \in trace[last].rt.active_states

C10_Witness ==
  /\ \E i \in Steps("microstep") : trace[i].ts = <<"tCn">>
  /\ \E i \in Steps("microstep") : trace[i].ts = <<"tCC">>

----------------------------------------------------------------------------
(* Done events and final states.                                           *)

\* The steps of entering the state added at step i, up to the next state
\* entered or the end of the microstep.
EntryPart(i) ==
  (i+1)..EndOfPart(i, {"add", "microstep", "iteration", "loopend", "shutdown"})

\* The enqueues of the given event among the given steps.
EnqueuesOf(part, event) == {j \in part : trace[j].op = "enqueue" /\ trace[j].ev = event}

\* C11: each time a final state whose parent is a state P (not the root) is
\* entered, exactly one event done.state.<id of P> is appended at the back
\* of the internal queue, and running stays as it was.
C11_FinalChildEnqueuesDoneOfParent ==
  \A i \in Steps("add") :
    (IsFinal(trace[i].st) /\ GetParent(trace[i].st) # Null) =>
      LET done == EnqueuesOf(EntryPart(i), DoneEvent(GetParent(trace[i].st)))
      IN /\ Cardinality(done) = 1
         /\ \A j \in done :
              trace[j].rt.internal_events
                = Append(trace[j-1].rt.internal_events,
                         <<DoneEvent(GetParent(trace[i].st)), "">>)
         /\ \A j \in EntryPart(i) \cup {Max(EntryPart(i) \cup {i}) + 1} :
              trace[j].rt.is_running = trace[i].rt.is_running

C11_Witness ==
  /\ \E i \in Steps("add") : trace[i].st = "R2f"
                               /\ trace[i].rt.internal_events # <<>>
  /\ EnqueuesOf(1..Len(trace), ev_done_state \o <<"R","2">>) # {}

\* The parallel state whose region has s as a child, if any.
ParallelGrandParent(s) ==
  IF GetParent(s) = Null THEN Null
  ELSE IF GetParent(GetParent(s)) = Null THEN Null
  ELSE IF IsParallel(GetParent(GetParent(s))) THEN GetParent(GetParent(s))
  ELSE Null

\* Every region of the parallel state p is in a final state in the snapshot.
AllRegionsFinal(snapshot, p) ==
  \A r \in Range(GetChildren(p)) : IsInFinalStateHelper(r, snapshot.active_states)

\* The steps that add a final child of a region of the parallel state p.
FinalEntriesOf(p) ==
  {i \in Steps("add") : IsFinal(trace[i].st) /\ ParallelGrandParent(trace[i].st) = p}

\* C12: for a parallel state P whose regions are compound states with a
\* final child, done.state.P is enqueued only on entering the final child of
\* a region when every region of P is then in a final state, once, right
\* after that region's own done event, and never while some region is not in
\* a final state; a macrostep that is not cut short (by an unhandled error
\* event or the microstep bound) then takes the transition that handles
\* done.state.P.
C12_ParallelDoneOnceWhenAllRegionsFinal ==
  \A p \in {s \in States : IsParallel(s)} :
    /\ \A i \in FinalEntriesOf(p) :
         LET done == EnqueuesOf(EntryPart(i), DoneEvent(p))
         IN /\ Cardinality(done) = IF AllRegionsFinal(trace[i].rt, p) THEN 1 ELSE 0
            /\ \A j \in done :
                 /\ trace[j-1].op = "enqueue"
                 /\ trace[j-1].ev = DoneEvent(GetParent(trace[i].st))
                 /\ trace[j].rt.internal_events[Len(trace[j].rt.internal_events)]
                      = <<DoneEvent(p), "">>
    /\ \A j \in EnqueuesOf(1..Len(trace), DoneEvent(p)) :
         /\ \E i \in FinalEntriesOf(p) : j \in EntryPart(i)
         /\ AllRegionsFinal(trace[j].rt, p)
         /\ LoopEndReason = "stable" =>
              \E k \in Steps("select") :
                /\ k > j
                /\ trace[k].ev = DoneEvent(p)
                /\ trace[k].ts = <<"tPdone">>
                /\ trace[k + 1].op = "microstep"
                /\ trace[k + 1].ts = <<"tPdone">>

C12_Witness ==
  /\ call.name = "SendEvent"
  /\ \E i \in FinalEntriesOf("P") : trace[i].st = "R1f"
  /\ Cardinality(EnqueuesOf(1..Len(trace), DoneEvent("P"))) = 1
  /\ \E k \in Steps("microstep") : trace[k].ts = <<"tPdone">>
  /\ active_states = {"D"}

\* The steps that add a top-level final state.
TopLevelFinalEntries ==
  {i \in Steps("add") : IsFinal(trace[i].st) /\ GetParent(trace[i].st) = Null}

\* C13: when a top-level final state is entered, no transition is selected
\* and no microstep is taken after it, and the call returns with running
\* false, the active set and the internal queue empty, after the on-exit
\* block of every state that was active has run and the state was removed.
C13_TopLevelFinalStopsAndShutsDown ==
  \A i \in TopLevelFinalEntries :
    /\ ~is_running
    /\ active_states = {}
    /\ internal_events = <<>>
    /\ \A j \in (i+1)..Len(trace) : trace[j].op \notin {"select", "microstep", "iteration"}
    /\ \E k \in Steps("shutdown") :
         /\ k > i
         /\ trace[i].st \in trace[k].rt.active_states
         /\ \A s \in trace[k].rt.active_states :
              \E a, b \in (k+1)..Len(trace) :
                /\ a < b
                /\ trace[a].op = "onexit" /\ trace[a].st = s
                /\ trace[b].op = "erase" /\ trace[b].st = s

C13_Witness ==
  /\ call.name = "SendEvent"
  /\ \E i \in TopLevelFinalEntries : trace[i].st = "F"
  /\ \E k \in Steps("shutdown") : trace[k].rt.internal_events # <<>>
  /\ \E k \in Steps("microstep") : trace[k].rt.active_states = {"D"}

----------------------------------------------------------------------------
(* Errors and calls that do nothing.                                       *)

\* The selection made for the event dequeued at step i.
SelectionAfter(i) == Min({k \in Steps("select") : k > i})

\* C14: when the macrostep loop dequeues an event named error or error.*
\* and selection finds no transition for it, the macrostep ends there: no
\* microstep and no dequeue follows in the call, what is left in the queue
\* stays (behind it only an error of assigning the data of this event), and
\* the call returns running with the active set as it was when the event
\* was dequeued.
C14_UnhandledErrorEndsMacrostep ==
  \A i \in LoopDequeues :
    (IsErrorEvent(trace[i].ev) /\ trace[SelectionAfter(i)].ts = <<>>) =>
      /\ SelectionAfter(i) + 1 = Len(trace)
      /\ trace[Len(trace)].op = "loopend"
      /\ trace[Len(trace)].st = "error"
      /\ \A j \in (i+1)..Len(trace) : trace[j].op \notin {"microstep", "dequeue", "shutdown"}
      /\ is_running
      /\ active_states = trace[i].rt.active_states
      /\ IsPrefix(trace[i].rt.internal_events, internal_events)
      /\ \A k \in (Len(trace[i].rt.internal_events) + 1)..Len(internal_events) :
           /\ internal_events[k][1] = ev_error_execution
           /\ ~trace[i].rt.datamodel.event_is_object

C14_Witness ==
  /\ LoopEndReason = "error"
  /\ internal_events # <<>>
  /\ \E i \in LoopDequeues : trace[i].ev = ev_error_execution /\ i > 1
  /\ Steps("microstep") # {}

\* C15: SendEvent on a machine that is not running (never started, or
\* stopped at a top-level final state) changes nothing: the active set, the
\* internal queue, the datamodel with _event and running stay as they were,
\* and the call takes no step (no executable content, no notification).
C15_SendEventIgnoredWhenNotRunning ==
  [][(call'.name = "SendEvent" /\ ~is_running) =>
       /\ active_states' = active_states
       /\ internal_events' = internal_events
       /\ datamodel' = datamodel
       /\ is_running' = is_running
       /\ trace' = <<>>]_vars

\* An event was sent to a machine that had stopped.
C15_Witness ==
  /\ call.name = "SendEvent"
  /\ trace = <<>>
  /\ ~is_running
  /\ datamodel.name # <<>>

\* C16: Start on a machine that is running, after an earlier Start or
\* created running from a snapshot, changes nothing: the active set, the
\* internal queue, the datamodel and running stay as they were, and the
\* call takes no step (no on-entry block, no notification).
C16_StartIgnoredWhenRunning ==
  [][/\ (call'.name = "Start" /\ is_running) =>
          /\ active_states' = active_states
          /\ internal_events' = internal_events
          /\ datamodel' = datamodel
          /\ is_running' = is_running
          /\ trace' = <<>>
     /\ (call'.name = "Start" /\ restored.created /\ restored.is_running) =>
          restored' = [restored EXCEPT !.trace = <<>>]]_vars

\* Start was called on a running machine that had events pending.
C16_Witness ==
  /\ call.name = "Start"
  /\ trace = <<>>
  /\ is_running
  /\ internal_events # <<>>
  /\ active_states # {"A"}

----------------------------------------------------------------------------
(* Snapshots.                                                              *)

\* The ids in a tree of ActiveStateElement records.
RECURSIVE TreeIds(_)
TreeIds(elements) ==
  UNION {{elements[k].id} \cup TreeIds(elements[k].active_child) : k \in 1..Len(elements)}

\* The serialized runtime holds the running flag and the active states of
\* the machine.
HoldsTheRuntime(serialized_runtime) ==
  /\ serialized_runtime.running = is_running
  /\ TreeIds(serialized_runtime.active_state) = {StateId(s) : s \in active_states}

C18_RestoredEqualsOriginal ==
  call.name = "CreateStateMachine" =>
    /\ restored.created
    /\ internal_events = <<>>
    /\ restored.active_states = active_states
    /\ restored.is_running = is_running
    /\ restored.internal_events = <<>>

C18_Witness ==
  /\ call.name = "CreateStateMachine"
  /\ is_running
  /\ restored.active_states = {"P", "R1", "R1b", "R2", "R2f", "R3", "R3f"}

ScanOf(atomic_state) ==
  TransitionsOf(<<atomic_state>> \o GetProperAncestors(atomic_state, Null))

\* The evaluations that fail in one selection: for every active atomic
\* state, the transitions that match the event and whose condition does not
\* evaluate, up to the first transition that is enabled.
FailedEvaluations(snapshot, event) ==
  {<<a, i>> \in Range(ActiveAtomicStates(snapshot)) \X (1..Cardinality(Transitions)) :
     /\ i <= Len(ScanOf(a))
     /\ Matches(ScanOf(a)[i], event)
     /\ Transition(ScanOf(a)[i]).cond.kind = "bad"
     /\ \A j \in 1..(i-1) :
          ~(Matches(ScanOf(a)[j], event) /\ ConditionHolds(snapshot, ScanOf(a)[j]))}

\* The execution errors enqueued right before step k.
ErrorsBefore(k) ==
  {j \in 1..(k-1) :
     \A l \in j..(k-1) : trace[l].op = "enqueue" /\ trace[l].ev = ev_error_execution}

\* The execution error of the event data comes right before the selection
\* for the event: _event is not an object, or the payload of the external
\* event does not evaluate.
PayloadErrors(k) ==
  IF trace[k].ev = NullEvent THEN 0
  ELSE IF ~trace[k].rt.datamodel.event_is_object THEN 1
  ELSE IF call.name = "SendEvent" /\ call.payload = "bad" /\ k = Min(Steps("select"))
  THEN 1 ELSE 0

\* C20: a transition whose condition fails to evaluate is not selected, each
\* failed evaluation appends one error.execution to the internal queue, and
\* selection goes on with the next transition of the scan.
C20_FailedConditionDisablesAndEnqueuesError ==
  \A k \in Steps("select") :
    /\ \A i \in 1..Len(trace[k].ts) : Transition(trace[k].ts[i]).cond.kind # "bad"
    /\ Cardinality(ErrorsBefore(k))
         = Cardinality(FailedEvaluations(trace[k].rt, trace[k].ev)) + PayloadErrors(k)
    /\ \A j \in ErrorsBefore(k) :
         trace[j].rt.internal_events[Len(trace[j].rt.internal_events)]
           = <<ev_error_execution, "msg">>
    /\ Len(Candidates(trace[k].rt, trace[k].ev)) <= 1 =>
         trace[k].ts = Candidates(trace[k].rt, trace[k].ev)

C20_Witness ==
  \E k \in Steps("select") :
    /\ trace[k].rt.active_states = {"D"}
    /\ trace[k].ev = ev_go
    /\ FailedEvaluations(trace[k].rt, trace[k].ev) = {<<"D", 1>>}
    /\ trace[k].ts = <<"tDP">>
    /\ call.payload = ""

----------------------------------------------------------------------------
(* The event data.                                                         *)

StepsIn(steps, op) == {i \in 1..Len(steps) : steps[i].op = op}

\* The dequeues of the macrostep loop among the steps of a call.
LoopDequeuesIn(steps) ==
  {i \in StepsIn(steps, "dequeue") : \A j \in StepsIn(steps, "shutdown") : i < j}

\* The event-data assignments of a call that began in the snapshot before
\* and took the given steps: the one for the external event, and one for
\* every internal event the loop dequeued.  at is the step after which the
\* assignment was made.
AssignmentsOf(before, the_call, steps) ==
  (IF the_call.name = "SendEvent" /\ before.is_running
   THEN {[before |-> before, event |-> the_call.event,
          payload |-> the_call.payload, at |-> 0]}
   ELSE {})
  \cup {[before |-> steps[i].rt, event |-> steps[i].ev,
         payload |-> Head(steps[i-1].rt.internal_events)[2], at |-> i] :
          i \in LoopDequeuesIn(steps)}

\* The selection made for the event assigned after step at.
SelectionFor(steps, at) == Min({k \in StepsIn(steps, "select") : k > at})

\* What the claim says of one assignment a: one error if the name cannot be
\* assigned, and then nothing else changes; else one error if there is a
\* payload that cannot be assigned; else none.
RaisesAtMostOneError(a, steps) ==
  LET r == AssignEventData(RtOf(a.before), a.event, a.payload)
      name_fails == ~a.before.datamodel.event_is_object
      data_fails == ~name_fails /\ a.payload = "bad"
      errors == {k \in (a.at + 1)..(SelectionFor(steps, a.at) - 1) :
                   k - a.at <= Len(r.trace)}
  IN /\ Cardinality(errors) = IF name_fails \/ data_fails THEN 1 ELSE 0
     /\ \A k \in errors :
          /\ steps[k].op = "enqueue"
          /\ steps[k].ev = ev_error_execution
          /\ steps[k].rt.internal_events
               = Append(a.before.internal_events, <<ev_error_execution, "msg">>)
          /\ steps[k].rt.datamodel = steps[SelectionFor(steps, a.at)].rt.datamodel
     /\ Len(r.trace) = Cardinality(errors)
     /\ name_fails =>
          steps[SelectionFor(steps, a.at)].rt.datamodel = a.before.datamodel
     /\ data_fails =>
          steps[SelectionFor(steps, a.at)].rt.datamodel
            = [a.before.datamodel EXCEPT !.name = a.event]
     /\ (~name_fails /\ ~data_fails /\ a.payload # "") =>
          steps[SelectionFor(steps, a.at)].rt.datamodel
            = [a.before.datamodel EXCEPT !.name = a.event, !.data = a.payload]

\* C21: assigning the event data of one event raises at most one
\* error.execution: when _event.name cannot be assigned one error is
\* enqueued and _event.data is not assigned; otherwise, when the payload is
\* not empty and _event.data cannot be assigned, one error is enqueued.
C21_EventDataRaisesAtMostOneError ==
  [][\A a \in AssignmentsOf(Snapshot(Runtime), call', trace') :
       RaisesAtMostOneError(a, trace')]_vars

\* An event with a payload was sent while _event was not an object: one
\* error, then the selection.
C21_Witness ==
  /\ call.name = "SendEvent"
  /\ call.payload = "1"
  /\ ~datamodel.event_is_object
  /\ Len(trace) >= 2
  /\ trace[1].op = "enqueue" /\ trace[1].ev = ev_error_execution
  /\ trace[2].op = "select"
  /\ LoopDequeues # {}

\* The payload of the last assignment before a, among those of the call,
\* that carried a payload that could be assigned; initial if there is none.
MostRecentPayload(a, assignments, initial) ==
  LET earlier == {b \in assignments : b.at < a.at /\ b.payload \notin {"", "bad"}}
  IN IF earlier = {} THEN initial
     ELSE (CHOOSE b \in earlier : \A c \in earlier : c.at <= b.at).payload

----------------------------------------------------------------------------
(* Executable content.                                                     *)

\* The steps at which the executor runs a block: a transition body, an
\* on-entry block, an on-exit block.
BlockSteps == Steps("body") \cup Steps("onentry") \cup Steps("onexit")

BlockOf(step) ==
  IF step.op = "body" THEN GetExecutable(step.tr)
  ELSE IF step.op = "onentry" THEN GetOnEntry(step.st)
  ELSE GetOnExit(step.st)

\* The runtime after the first n children of a block ran one after the
\* other, whatever they returned.
RECURSIVE RunChildren(_, _, _)
RunChildren(rt, block, n) ==
  IF n = 0 THEN rt ELSE ExecuteContent(RunChildren(rt, block, n - 1), block[n]).rt

\* The children that return failure when run after those before them.
FailingChildren(rt, block) ==
  {i \in 1..Len(block) : ~ExecuteContent(RunChildren(rt, block, i - 1), block[i]).ok}

\* The number of children the claim says are run: up to the first failure.
ChildrenRun(rt, block) ==
  IF FailingChildren(rt, block) = {} THEN Len(block)
  ELSE Min(FailingChildren(rt, block))

\* The events enqueued in the steps of the block that starts at step m.
RaisedIn(m) ==
  EventsOf(SubSeq(trace, m + 1,
                  EndOfPart(m, {"followed", "entered", "erase", "microstep",
                                "iteration", "loopend", "shutdown"})),
           "enqueue")

\* C23: a block runs its children in order and stops at the first child
\* that returns failure: what the executor's run of a block did is what its
\* children do up to and including the first that fails, no later child is
\* run, and the block returns failure exactly when a child failed.
C23_BlockStopsAtFirstFailure ==
  /\ \A m \in BlockSteps :
       LET block == BlockOf(trace[m])
           before == RtOf(trace[m].rt)
           claimed == RunChildren(before, block, ChildrenRun(before, block))
       IN /\ ExecutableBlockExecute(before, block, 1).ok
               = (FailingChildren(before, block) = {})
          /\ SubSeq(trace, m + 1, m + Len(claimed.trace)) = claimed.trace
          /\ trace[m + Len(claimed.trace) + 1].op \in {"followed", "entered", "erase"}
          /\ trace[m + Len(claimed.trace) + 1].rt.datamodel = claimed.datamodel
          /\ trace[m + Len(claimed.trace)].rt.internal_events = claimed.internal_events
  /\ \A m \in Steps("body") :
       /\ trace[m].tr = "tR1w" => RaisedIn(m) = <<ev_error_execution>>
       /\ trace[m].tr = "tDw" =>
            /\ ev_i1 \notin Range(RaisedIn(m))
            /\ ev_noop \notin Range(RaisedIn(m))

\* Blocks with a failing child followed by other children were run: the
\* body of tR1w, and the blocks inside the if and the foreach of tDw.
C23_Witness ==
  /\ \E m \in Steps("body") : trace[m].tr = "tDw" /\ Len(RaisedIn(m)) >= 2
  /\ internal_events # <<>>
  /\ active_states = {"D"}

\* C24 as stated: a datamodel failure in executable content, at any nesting
\* depth, is reported as failure by every enclosing element and stops each
\* containing block at that point: in a block the executor runs, nothing is
\* enqueued after the first error.execution, and the block returns failure.
C24_FailureStopsEnclosingBlocks ==
  \A m \in BlockSteps :
    /\ \A k \in 1..Len(RaisedIn(m)) :
         RaisedIn(m)[k] = ev_error_execution => k = Len(RaisedIn(m))
    /\ ev_error_execution \in Range(RaisedIn(m)) =>
         ~ExecutableBlockExecute(RtOf(trace[m].rt), BlockOf(trace[m]), 1).ok

----------------------------------------------------------------------------
(* Event descriptors.                                                      *)

\* The dot-separated segments of a name.
RECURSIVE Segments(_)
Segments(name) ==
  IF \A k \in 1..Len(name) : name[k] # "." THEN <<name>>
  ELSE LET dot == CHOOSE k \in 1..Len(name) :
                    name[k] = "." /\ \A j \in 1..(k - 1) : name[j] # "."
       IN <<SubSeq(name, 1, dot - 1)>> \o Segments(SubSeq(name, dot + 1, Len(name)))

\* The name is the descriptor, or the descriptor followed by "." and further
\* segments; or the descriptor is the wildcard.
DescriptorMatches(name, descriptor) ==
  \/ descriptor = ev_star
  \/ name = descriptor
  \/ /\ Len(Segments(name)) > Len(Segments(descriptor))
     /\ SubSeq(Segments(name), 1, Len(Segments(descriptor))) = Segments(descriptor)

\* C25: an event name matches a descriptor list iff one of its descriptors is
\* the wildcard, equals the name, or is followed in the name by "." and
\* further segments: for every event a macrostep selects transitions for,
\* against every descriptor list of the chart; and for the name N the client
\* sent, N.x matches the list (y, N), Nx does not match N, N does not match
\* N.x, and N matches the list (N.x, *).
C25_EventMatchesDescriptorList ==
  /\ \A i \in Steps("select") : trace[i].ev # NullEvent =>
       /\ \A t \in Transitions :
            EventMatches(trace[i].ev, GetEvents(t))
              <=> \E k \in 1..Len(GetEvents(t)) :
                    DescriptorMatches(trace[i].ev, GetEvents(t)[k])
       /\ \A k \in 1..Len(trace[i].ts) :
            \E d \in 1..Len(GetEvents(trace[i].ts[k])) :
              DescriptorMatches(trace[i].ev, GetEvents(trace[i].ts[k])[d])
  /\ call.name = "SendEvent" =>
       /\ EventMatches(call.event \o Dot \o ev_x, <<ev_y, call.event>>)
       /\ ~EventMatches(call.event \o ev_x, <<call.event>>)
       /\ ~EventMatches(call.event, <<call.event \o Dot \o ev_x>>)
       /\ EventMatches(call.event, <<call.event \o Dot \o ev_x, ev_star>>)

\* In C, whose transition to G names totally and x, totally_unrelated was
\* sent and the transition to G was not selected.
C25_Witness ==
  \E i \in Steps("select") :
    /\ trace[i].ev = ev_totally_unrelated
    /\ "C" \in trace[i].rt.active_states
    /\ \A k \in 1..Len(trace[i].ts) : trace[i].ts[k] # "tCG"

----------------------------------------------------------------------------
(* The order of entering and of exiting one state.                         *)

\* The first step of the shutdown, or the step after the last one.
ShutdownAt ==
  IF Steps("shutdown") = {} THEN Len(trace) + 1 ELSE Min(Steps("shutdown"))

\* The first step after i that is not an enqueue by executable content.
AfterContent(i) ==
  LET later == {j \in (i+1)..Len(trace) : trace[j].op # "enqueue"}
  IN IF later = {} THEN Len(trace) + 1 ELSE Min(later)

\* C26: a state entered in a microstep is added to the active set, then its
\* on-entry block runs, then state_entered is notified, and then, for a
\* default-entered compound state, its initial transition's body runs; a
\* state exited in a microstep runs its on-exit block, is then removed from
\* the active set, and then state_exited is notified. So state_entered sees
\* the state active and state_exited never does.
C26_EntryAndExitOrderOfOneState ==
  /\ \A i \in Steps("add") :
       /\ i + 1 <= Len(trace)
       /\ trace[i + 1].op = "onentry" /\ trace[i + 1].st = trace[i].st
       /\ AfterContent(i + 1) <= Len(trace)
       /\ trace[AfterContent(i + 1)].op = "entered"
       /\ trace[AfterContent(i + 1)].st = trace[i].st
  /\ \A i \in Steps("entered") :
       /\ trace[i].st \in trace[i].rt.active_states
       /\ \E a \in 1..(i - 1) :
            /\ trace[a].op = "add" /\ trace[a].st = trace[i].st
            /\ AfterContent(a + 1) = i
  /\ \A i \in Steps("initial") :
       /\ trace[i - 1].op = "entered" /\ trace[i - 1].st = trace[i].st
       /\ IsCompound(trace[i].st)
  /\ \A i \in Steps("onexit") : i < ShutdownAt =>
       /\ trace[i].st \in trace[i].rt.active_states
       /\ AfterContent(i) + 1 <= Len(trace)
       /\ trace[AfterContent(i)].op = "erase"
       /\ trace[AfterContent(i)].st = trace[i].st
       /\ trace[AfterContent(i) + 1].op = "exited"
       /\ trace[AfterContent(i) + 1].st = trace[i].st
  /\ \A i \in Steps("exited") :
       /\ trace[i].st \notin trace[i].rt.active_states
       /\ trace[i - 1].op = "erase" /\ trace[i - 1].st = trace[i].st

\* One call exits C and default-enters the compound state S, with both
\* notifications made.
C26_Witness ==
  /\ \E i \in Steps("onexit") :
       trace[i].st = "C" /\ trace[i + 1].op = "erase" /\ trace[i + 2].op = "exited"
  /\ \E i \in Steps("add") :
       trace[i].st = "S" /\ trace[i + 1].op = "onentry" /\ trace[i + 2].op = "entered"
  /\ \E i \in Steps("initial") : trace[i].st = "S"
  /\ \E i \in Steps("exited") : trace[i].st = "C"

----------------------------------------------------------------------------
(* The In predicate.                                                       *)

\* C27: In(s) is true exactly when s is in the active set at the instant of
\* the evaluation. A selected transition whose condition is In(s) was
\* selected with s active. The body of the transition from C to S asks for
\* C, then S, and raises z otherwise: it runs with neither active and raises
\* z. The on-entry block of B raises i1 if In(B): it runs with B active and
\* raises i1, then i2. The on-exit block of C assigns if In(C) and fails
\* otherwise: it runs with C active and raises no error.
C27_InReportsTheActiveSetOfTheInstant ==
  /\ \A i \in Steps("select") : \A k \in 1..Len(trace[i].ts) :
       Transition(trace[i].ts[k]).cond.kind = "In" =>
         Transition(trace[i].ts[k]).cond.st \in trace[i].rt.active_states
  /\ \A m \in Steps("body") : trace[m].tr = "tCS" =>
       /\ trace[m].rt.active_states \cap {"C", "S"} = {}
       /\ RaisedIn(m) = <<ev_z>>
  /\ \A m \in Steps("onentry") : trace[m].st = "B" =>
       /\ "B" \in trace[m].rt.active_states
       /\ RaisedIn(m) = <<ev_i1, ev_i2>>
  /\ \A m \in Steps("onexit") : trace[m].st = "C" =>
       /\ "C" \in trace[m].rt.active_states
       /\ RaisedIn(m) = <<>>

\* The transition from C to S was taken: the on-exit block of C and the
\* body of the transition ran, and before that B was entered.
C27_Witness ==
  /\ \E m \in Steps("body") : trace[m].tr = "tCS" /\ RaisedIn(m) = <<ev_z>>
  /\ \E m \in Steps("onexit") : trace[m].st = "C"
  /\ "S" \in active_states

----------------------------------------------------------------------------
(* The microstep limit (specification SpecLoop).                           *)

\* C28: for the chart whose initial state L has an eventless, unconditional
\* self-transition, the macrostep run by Start takes exactly
\* MaxNumMicrosteps microsteps, each of that transition, and then returns
\* with the machine running in L.
C28_StartStopsAtTheLimit ==
  (model = BuildLoop /\ call.name = "Start" /\ trace # <<>>) =>
    /\ Cardinality(Steps("microstep")) = MaxNumMicrosteps
    /\ \A i \in Steps("microstep") : trace[i].ts = <<"tLL">>
    /\ Steps("shutdown") = {}
    /\ is_running
    /\ active_states = {"L"}

\* Start returned after entering L and taking its self-transition.
C28_Witness ==
  /\ model = BuildLoop
  /\ call.name = "Start"
  /\ \E i \in Steps("add") : trace[i].st = "L"
  /\ \E i \in Steps("microstep") : trace[i].ts = <<"tLL">>
  /\ active_states = {"L"}

----------------------------------------------------------------------------
(* Shutdown.                                                               *)

\* The position of a state in the document: parents before their children,
\* children in the order of the child list.
DocumentPosition(state) == GetIndex(PreOrder(GetTopLevelStates), state)

\* The on-exit steps of the shutdown, in the order they were made.
ShutdownExits ==
  SelectSeq([k \in 1..Len(trace) |-> k],
            LAMBDA k : k > ShutdownAt /\ trace[k].op = "onexit")

\* C29: at shutdown the on-exit blocks of all active states run in reverse
\* document order: every state active when the shutdown starts is exited
\* once, later states of the document first, so a state before its parent,
\* and each state is removed from the active set right after its own
\* on-exit block.
C29_ShutdownExitsInReverseDocumentOrder ==
  Steps("shutdown") # {} =>
    /\ {trace[ShutdownExits[k]].st : k \in 1..Len(ShutdownExits)}
         = trace[ShutdownAt].rt.active_states
    /\ Len(ShutdownExits) = Cardinality(trace[ShutdownAt].rt.active_states)
    /\ \A k, l \in 1..Len(ShutdownExits) : k < l =>
         /\ DocumentPosition(trace[ShutdownExits[k]].st)
              > DocumentPosition(trace[ShutdownExits[l]].st)
         /\ ~IsDescendant(trace[ShutdownExits[l]].st, trace[ShutdownExits[k]].st)
    /\ \A k \in 1..Len(ShutdownExits) :
         /\ trace[ShutdownExits[k]].st \in trace[ShutdownExits[k]].rt.active_states
         /\ trace[AfterContent(ShutdownExits[k])].op = "erase"
         /\ trace[AfterContent(ShutdownExits[k])].st = trace[ShutdownExits[k]].st
    /\ active_states = {}

\* The machine shut down with the compound state S, its child S1 and the
\* top-level final state F active.
C29_Witness ==
  /\ Steps("shutdown") # {}
  /\ trace[ShutdownAt].rt.active_states = {"S", "S1", "F"}
  /\ Len(ShutdownExits) = 3

----------------------------------------------------------------------------
(* The order of entry.                                                     *)

\* Steps a and b belong to the same entry: no microstep, loop iteration,
\* loop end or shutdown starts between them.
SameEntry(a, b) ==
  \A j \in a..b : trace[j].op \notin {"microstep", "iteration", "loopend", "shutdown"}

\* C30: the states entered in one microstep (or by Start) are entered in
\* document order: of two states the one earlier in the document is added
\* and runs its on-entry block first, so a parent before its child, and of
\* the regions of P first R1, then R2, then R3.
C30_EntryInDocumentOrder ==
  /\ \A a, b \in Steps("add") : (a < b /\ SameEntry(a, b)) =>
       /\ DocumentPosition(trace[a].st) < DocumentPosition(trace[b].st)
       /\ ~IsDescendant(trace[a].st, trace[b].st)
       /\ trace[a + 1].op = "onentry" /\ trace[a + 1].st = trace[a].st
       /\ a + 1 < b
  /\ \A a \in Steps("add") : GetParent(trace[a].st) # Null =>
       GetParent(trace[a].st) \in trace[a].rt.active_states
  /\ \A a \in Steps("add") : trace[a].st = "P" =>
       \E r1, r2, r3 \in Steps("add") :
         /\ a < r1 /\ r1 < r2 /\ r2 < r3 /\ SameEntry(a, r3)
         /\ trace[r1].st = "R1" /\ trace[r2].st = "R2" /\ trace[r3].st = "R3"

\* P was entered with its three regions and their initial states.
C30_Witness ==
  \E a, b \in Steps("add") :
    /\ a < b /\ SameEntry(a, b)
    /\ trace[a].st = "P"
    /\ trace[b].st = "R3a"

----------------------------------------------------------------------------
(* The order of exit.                                                      *)

\* The parent, the parent's parent, and so on.
RECURSIVE AncestorChain(_)
AncestorChain(state) ==
  IF GetParent(state) = Null THEN {}
  ELSE {GetParent(state)} \cup AncestorChain(GetParent(state))

\* The state lies properly below the domain; the root (no state) is above all.
BelowDomain(state, domain) == domain = Null \/ domain \in AncestorChain(state)

\* The on-exit steps of the microstep that starts at step i, in order.
MicrostepExits(i) ==
  SelectSeq([k \in 1..Len(trace) |-> k],
            LAMBDA k : k \in MicrostepPart(i) /\ trace[k].op = "onexit")

\* C31: the states exited in one microstep are exactly the active proper
\* descendants of the domains of the transitions taken, each exited once, in
\* reverse document order: every state runs its on-exit block and is removed
\* before its parent runs its own.
C31_ExitSetInReverseDocumentOrder ==
  \A i \in Steps("microstep") :
    /\ {trace[MicrostepExits(i)[k]].st : k \in 1..Len(MicrostepExits(i))}
         = {s \in trace[i].rt.active_states :
              \E k \in 1..Len(trace[i].ts) :
                BelowDomain(s, GetTransitionDomain(trace[i].ts[k]))}
    /\ \A k, l \in 1..Len(MicrostepExits(i)) : k < l =>
         /\ DocumentPosition(trace[MicrostepExits(i)[k]].st)
              > DocumentPosition(trace[MicrostepExits(i)[l]].st)
         /\ trace[MicrostepExits(i)[k]].st
              \notin AncestorChain(trace[MicrostepExits(i)[l]].st)
         /\ trace[MicrostepExits(i)[k]].st
              \notin trace[MicrostepExits(i)[l]].rt.active_states
    /\ \A k \in 1..Len(MicrostepExits(i)) :
         /\ trace[AfterContent(MicrostepExits(i)[k])].op = "erase"
         /\ trace[AfterContent(MicrostepExits(i)[k])].st = trace[MicrostepExits(i)[k]].st

\* A microstep left the parallel state P with its three regions active:
\* seven states were exited, the last of them P.
C31_Witness ==
  \E i \in Steps("microstep") :
    /\ Len(MicrostepExits(i)) = 7
    /\ trace[MicrostepExits(i)[7]].st = "P"
    /\ trace[MicrostepExits(i)[1]].st \in {"R3a", "R3f"}

----------------------------------------------------------------------------
(* The foreach over an empty array.                                        *)

\* The steps at which the executor runs a block that is one foreach over
\* the empty array.
EmptyForEachSteps ==
  {m \in BlockSteps :
     /\ Len(BlockOf(trace[m])) = 1
     /\ BlockOf(trace[m])[1].op = "foreach"
     /\ BlockOf(trace[m])[1].array = <<>>}

\* The store when the block that started at step m has ended.
StoreAfter(m) == trace[AfterContent(m)].rt.datamodel

\* C32 as stated: a foreach over an empty array runs its body zero times and
\* leaves the store exactly as it was: no location is created and no value
\* is changed.
C32_EmptyForEachLeavesStore ==
  \A m \in EmptyForEachSteps :
    /\ RaisedIn(m) = <<>>
    /\ StoreAfter(m) = trace[m].rt.datamodel

\* C32, amended: a foreach over an empty array runs its body zero times and
\* changes no value of the store; its item variable, when it was not
\* defined, is declared and holds null.
C32_EmptyForEachDeclaresItemOnly ==
  \A m \in EmptyForEachSteps :
    /\ RaisedIn(m) = <<>>
    /\ AfterContent(m) <= Len(trace)
    /\ StoreAfter(m) =
         [trace[m].rt.datamodel EXCEPT ![BlockOf(trace[m])[1].item] =
            IF @ = "undefined" THEN "null" ELSE @]

\* Start entered A, whose on-entry block is a foreach over the empty array
\* with an item variable that was not defined.
C32_Witness ==
  \E m \in EmptyForEachSteps :
    /\ call.name = "Start"
    /\ trace[m].rt.datamodel.item = "undefined"
    /\ StoreAfter(m).item = "null"

----------------------------------------------------------------------------
(* The document order (specification SpecOrder).                           *)

\* Before, by the walk of the state tree: a parent before its descendants,
\* siblings in the order of the child list.
WalkBefore(state1, state2) == DocumentPosition(state1) < DocumentPosition(state2)

\* C33: the document-order comparison is a strict total order on the states
\* of the model: a state does not precede itself, of two distinct states
\* exactly one precedes the other, the relation is transitive, and it is the
\* order of the pre-order walk of the state tree.
C33_DocumentOrderIsTheWalk ==
  call.name = "StateDocumentOrderLessThan" =>
    /\ call.result = WalkBefore(call.event[1], call.event[2])
    /\ call.event[1] = call.event[2] => ~call.result
    /\ call.event[1] # call.event[2] =>
         call.result # StateDocumentOrderLessThan(call.event[2], call.event[1])
    /\ \A state3 \in States :
         (call.result /\ StateDocumentOrderLessThan(call.event[2], state3))
           => StateDocumentOrderLessThan(call.event[1], state3)
    /\ (call.event[1] \in AncestorChain(call.event[2])) => call.result

\* Two states of different regions of P were compared: the one in the
\* later region does not precede the one in the earlier region, although it
\* is not its descendant.
C33_Witness ==
  /\ call.name = "StateDocumentOrderLessThan"
  /\ call.event = <<"R2a", "R1b">>
  /\ call.result = FALSE

----------------------------------------------------------------------------
(* The states a transition exits and enters.                               *)

\* The states the transition t exits, and those it enters, in the snapshot.
ExitedBy(snapshot, t) == ExitSetOf(RtOf(snapshot), <<t>>)
EnteredBy(t) == Range(ComputeEntrySet(addr, <<t>>).states_to_enter)

\* The transition is external and its own source is one of its targets.
IsSelfTargeting(t) ==
  ~IsInternal(t) /\ GetSourceState(t) \in Range(GetTargetStates(t))

\* The child of the domain (a top-level state for the root) on the path to
\* the state, or the state itself.
BranchOf(domain, state) ==
  CHOOSE b \in {state} \cup AncestorChain(state) : GetParent(b) = domain

\* C34 as stated: the set of states a taken transition both exits and
\* enters is empty unless the transition is external and names its own
\* source as a target.
C34_ReentryOnlyBySelfTargeting ==
  \A i \in Steps("microstep") : \A k \in 1..Len(trace[i].ts) :
    \/ ExitedBy(trace[i].rt, trace[i].ts[k]) \cap EnteredBy(trace[i].ts[k]) = {}
    \/ IsSelfTargeting(trace[i].ts[k])

\* C34, amended: a taken transition exits and enters some state exactly
\* when one of its targets lies in a child of its domain that is active; a
\* transition without targets re-enters nothing, and an external transition
\* that names its source as a target re-enters at least its source. A
\* microstep of one transition exits and enters these very sets.
C34_ReentryOfActiveBranches ==
  \A i \in Steps("microstep") : \A k \in 1..Len(trace[i].ts) :
    /\ (ExitedBy(trace[i].rt, trace[i].ts[k]) \cap EnteredBy(trace[i].ts[k]) # {})
         <=> \E g \in Range(GetTargetStates(trace[i].ts[k])) :
               BranchOf(GetTransitionDomain(trace[i].ts[k]), g)
                 \in trace[i].rt.active_states
    /\ IsSelfTargeting(trace[i].ts[k]) =>
         GetSourceState(trace[i].ts[k])
           \in ExitedBy(trace[i].rt, trace[i].ts[k]) \cap EnteredBy(trace[i].ts[k])
    /\ Len(trace[i].ts) = 1 =>
         /\ {trace[MicrostepExits(i)[e]].st : e \in 1..Len(MicrostepExits(i))}
              = ExitedBy(trace[i].rt, trace[i].ts[k])
         /\ {trace[a].st : a \in {b \in MicrostepPart(i) : trace[b].op = "add"}}
              = EnteredBy(trace[i].ts[k])

\* The external transition from S to its child S2 was taken with S1 active:
\* S is exited and entered, and is not a target.
C34_Witness ==
  \E i \in Steps("microstep") :
    /\ trace[i].ts = <<"tSy">>
    /\ "S1" \in trace[i].rt.active_states
    /\ ExitedBy(trace[i].rt, "tSy") \cap EnteredBy("tSy") = {"S"}

----------------------------------------------------------------------------
(* Transitions without targets.                                            *)

\* C35 as stated: a microstep of transitions that have no targets leaves
\* the active set as it was: no state is exited and none is entered, only
\* the bodies run, also when the source is a compound or parallel state
\* with active descendants.
C35_TargetlessKeepsActiveSet ==
  \A i \in Steps("microstep") :
    (\A k \in 1..Len(trace[i].ts) : GetTargetStates(trace[i].ts[k]) = <<>>) =>
      /\ \A j \in MicrostepPart(i) :
           /\ trace[j].op \notin {"onexit", "erase", "exited", "add", "entered"}
           /\ trace[j].rt.active_states = trace[i].rt.active_states
      /\ \E j \in MicrostepPart(i) : trace[j].op = "body"

----------------------------------------------------------------------------
(* Internal events left in the queue by an earlier macrostep.              *)

LoopDequeuesUpTo(steps, i) == Cardinality({j \in LoopDequeuesIn(steps) : j <= i})

----------------------------------------------------------------------------
(* Entering and exiting against the active set.                            *)

\* The active set just before step i of the last call; Start enters its
\* first state after it cleared the runtime.
ActiveBefore(i) == IF i = 1 THEN {} ELSE trace[i - 1].rt.active_states

\* C37: no state is active at the moment it is entered; between two
\* executions of the on-entry block of a state its on-exit block is
\* executed; and the on-exit block of a state runs only while the state is
\* active.
C37_EnteredWhenInactiveExitedWhenActive ==
  /\ \A a \in Steps("add") :
       /\ trace[a].st \notin ActiveBefore(a)
       /\ a = 1 => call.name = "Start"
  /\ \A a, b \in Steps("onentry") : (a < b /\ trace[a].st = trace[b].st) =>
       \E x \in (a + 1)..(b - 1) : trace[x].op = "onexit" /\ trace[x].st = trace[a].st
  /\ \A x \in Steps("onexit") :
       /\ trace[x].st \in trace[x].rt.active_states
       /\ \A y \in Steps("onexit") : (x < y /\ trace[x].st = trace[y].st) =>
            \E a \in (x + 1)..(y - 1) : trace[a].op = "add" /\ trace[a].st = trace[x].st

\* The transition of S to itself was taken: S and its active child were
\* exited and entered again in one microstep.
C37_Witness ==
  \E i \in Steps("microstep") :
    /\ trace[i].ts = <<"tSS">>
    /\ "S" \in trace[i].rt.active_states
    /\ \E x, a \in MicrostepPart(i) :
         /\ x < a
         /\ trace[x].op = "onexit" /\ trace[x].st = "S"
         /\ trace[a].op = "onentry" /\ trace[a].st = "S"

----------------------------------------------------------------------------
(* The selected transitions.                                               *)

\* C38: the list of transitions a selection returns never holds the same
\* transition twice, and never two transitions whose exit sets in the
\* configuration of the selection share a state.
C38_SelectionWithoutDuplicatesOrConflicts ==
  \A i \in Steps("select") :
    \A k, l \in 1..Len(trace[i].ts) : k # l =>
      /\ trace[i].ts[k] # trace[i].ts[l]
      /\ ExitedBy(trace[i].rt, trace[i].ts[k])
           \cap ExitedBy(trace[i].rt, trace[i].ts[l]) = {}

\* In P two regions found the same transition, and the selection returned
\* a list that is not empty.
C38_Witness ==
  \E i \in Steps("select") :
    /\ \E k, l \in 1..Len(Candidates(trace[i].rt, trace[i].ev)) :
         /\ k # l
         /\ Candidates(trace[i].rt, trace[i].ev)[k]
              = Candidates(trace[i].rt, trace[i].ev)[l]
    /\ Len(trace[i].ts) >= 1
    /\ "P" \in trace[i].rt.active_states

----------------------------------------------------------------------------
(* The notifications of a state that leaves the active set.                *)

\* C39 as stated: every state that leaves the active set, through a
\* transition or through the shutdown, produces exactly one state_exited
\* notification for that departure: the step after its removal is its
\* state_exited, and no other state_exited for it follows before it is
\* entered again.
C39_EveryDepartureNotifiesExited ==
  \A e \in Steps("erase") :
    /\ e + 1 <= Len(trace)
    /\ trace[e + 1].op = "exited" /\ trace[e + 1].st = trace[e].st
    /\ \A x \in Steps("exited") : (x > e + 1 /\ trace[x].st = trace[e].st) =>
         \E a \in (e + 1)..x : trace[a].op = "add" /\ trace[a].st = trace[e].st

====
